---- MODULE Spec2Model ----
\* Verification model of the SCF core of quantum_engine:
\*   - the DIIS accelerator (src/scf/diis.rs),
\*   - the SCF drivers scf_cycle, run_uhf and run_udft (src/scf/*.rs).
\* f64 values are modelled as exact rationals <<numerator, denominator>>.
EXTENDS Integers, Sequences, FiniteSets, TLC

\* ---------------------------------------------------------------------
\* Exact rationals standing for f64
\* ---------------------------------------------------------------------

Abs(n) == IF n < 0 THEN -n ELSE n

\* Arguments are passed as one tuple to a function, so that each argument is
\* evaluated once however often the body reads it.
GCDOf[t \in Nat \X Nat] == IF t[2] = 0 THEN t[1] ELSE GCDOf[<<t[2], t[1] % t[2]>>]
GCD(a, b) == GCDOf[<<a, b>>]

RNormOf[t \in Int \X Int] ==
    LET n == t[1]
        d == t[2]
        g == GCD(Abs(n), Abs(d))
        s == IF d < 0 THEN -1 ELSE 1
    IN  IF n = 0 THEN <<0, 1>> ELSE <<(s * n) \div g, (s * d) \div g>>
RNorm(n, d) == RNormOf[<<n, d>>]

Rat == Int \X Int
R(n) == <<n, 1>>
RZero == <<0, 1>>
ROne == <<1, 1>>
RAddOf[t \in Rat \X Rat] ==
    RNorm(t[1][1] * t[2][2] + t[2][1] * t[1][2], t[1][2] * t[2][2])
RAdd(x, y) == RAddOf[<<x, y>>]
RSubOf[t \in Rat \X Rat] ==
    RNorm(t[1][1] * t[2][2] - t[2][1] * t[1][2], t[1][2] * t[2][2])
RSub(x, y) == RSubOf[<<x, y>>]
RMulOf[t \in Rat \X Rat] == RNorm(t[1][1] * t[2][1], t[1][2] * t[2][2])
RMul(x, y) == RMulOf[<<x, y>>]
RDivOf[t \in Rat \X Rat] == RNorm(t[1][1] * t[2][2], t[1][2] * t[2][1])
RDiv(x, y) == RDivOf[<<x, y>>]
RNeg(x) == <<-x[1], x[2]>>
RAbs(x) == <<Abs(x[1]), x[2]>>
RLt(x, y) == x[1] * y[2] < y[1] * x[2]

\* Option<T>: None is the empty sequence, Some(x) the one-element sequence.
None == <<>>
Some(x) == <<x>>
IsSome(o) == Len(o) = 1
Unwrap(o) == o[1]
UnwrapOr(o, dflt) == IF IsSome(o) THEN o[1] ELSE dflt

\* ---------------------------------------------------------------------
\* Vectors and matrices (Vec<f64>, Vec<Vec<f64>>, DMatrix<f64>), 1-based
\* ---------------------------------------------------------------------

\* a sequence written as a function is stored as a plain tuple
Tup(s) == s \o <<>>

\* body(v), with v evaluated once however often the body reads it
LetIn(v, body(_)) == CHOOSE r \in { body(x) : x \in {v} } : TRUE

RECURSIVE RSum(_)
RSum(s) == IF s = <<>> THEN RZero ELSE RAdd(Head(s), RSum(Tail(s)))

RECURSIVE Concat(_)
Concat(ss) == IF ss = <<>> THEN <<>> ELSE Head(ss) \o Concat(Tail(ss))

ZeroVec(n) == Tup([i \in 1..n |-> RZero])
ZeroMat(n) == Tup([i \in 1..n |-> ZeroVec(n)])
IntMat(m) == Tup([i \in 1..Len(m) |-> Tup([j \in 1..Len(m[i]) |-> R(m[i][j])])])

MatAdd(a, b) ==
    Tup([i \in 1..Len(a) |-> Tup([j \in 1..Len(a[i]) |-> RAdd(a[i][j], b[i][j])])])
MatSub(a, b) ==
    Tup([i \in 1..Len(a) |-> Tup([j \in 1..Len(a[i]) |-> RSub(a[i][j], b[i][j])])])
MatScale(c, a) ==
    Tup([i \in 1..Len(a) |-> Tup([j \in 1..Len(a[i]) |-> RMul(c, a[i][j])])])
MatMul(a, b) ==
    Tup([i \in 1..Len(a) |-> Tup([j \in 1..Len(b[1]) |->
        RSum([k \in 1..Len(b) |-> RMul(a[i][k], b[k][j])])])])

\* flatten: row-major concatenation of the rows
flatten(m) == Concat(m)

\* dot: sum over the zipped pairs (zip stops at the shorter vector)
dot(a, b) ==
    LET n == IF Len(a) < Len(b) THEN Len(a) ELSE Len(b)
    IN  RSum([i \in 1..n |-> RMul(a[i], b[i])])

\* ---------------------------------------------------------------------
\* solve_linear: Gauss-Jordan elimination with partial pivoting
\* ---------------------------------------------------------------------

\* 1e-12 = 1 / (TolRoot * TolRoot); written so that no intermediate value
\* leaves the 32-bit integer range.
TolRoot == 1000000

\* |x| < 1e-12
BelowPivotTol(x) ==
    LET n == Abs(x[1])
    IN  \/ n = 0
        \/ /\ n < 2147
           /\ n * TolRoot <= (x[2] - 1) \div TolRoot

\* the pivot search: the first row k >= i of largest |a[k][i]|
RECURSIVE PivotRow(_, _, _, _)
PivotRow(a, i, k, max) ==
    IF k > Len(a) THEN max
    ELSE IF RLt(RAbs(a[max][i]), RAbs(a[k][i]))
         THEN PivotRow(a, i, k + 1, k)
         ELSE PivotRow(a, i, k + 1, max)

Swap(s, i, j) == Tup([s EXCEPT ![i] = s[j], ![j] = s[i]])

\* one column of the elimination: swap, normalize row i, eliminate column i
\* from every other row; columns j < i are left as they are.
ElimStep(a, b, i) ==
    LET max == PivotRow(a, i, i + 1, i)
        a1 == Swap(a, i, max)
        b1 == Swap(b, i, max)
        diag == a1[i][i]
        rowi == Tup([j \in 1..Len(a1[i]) |->
                    IF j >= i THEN RDiv(a1[i][j], diag) ELSE a1[i][j]])
        bi == RDiv(b1[i], diag)
        a2 == Tup([k \in 1..Len(a1) |->
                 IF k = i THEN rowi
                 ELSE Tup([j \in 1..Len(a1[k]) |->
                         IF j >= i
                         THEN RSub(a1[k][j], RMul(a1[k][i], rowi[j]))
                         ELSE a1[k][j]])])
        b2 == Tup([k \in 1..Len(b1) |->
                 IF k = i THEN bi ELSE RSub(b1[k], RMul(a1[k][i], bi))])
    IN  <<a2, b2>>

RECURSIVE GaussJordan(_, _, _)
GaussJordan(a, b, i) ==
    IF i > Len(b) THEN Some(b)
    ELSE LET max == PivotRow(a, i, i + 1, i)
         IN  IF BelowPivotTol(a[max][i]) THEN None
             ELSE LET ab == ElimStep(a, b, i)
                  IN  GaussJordan(ab[1], ab[2], i + 1)

\* a solver that lacks the singularity test and hands back the right-hand
\* side it was working on
solve_linear_unchecked(a, b) ==
    LET r == GaussJordan(a, b, 1) IN IF IsSome(r) THEN r ELSE Some(b)

solve_linear(a, b) == GaussJordan(a, b, 1)

\* ---------------------------------------------------------------------
\* Diis
\* ---------------------------------------------------------------------

DiisNew(max_vecs) == [max_vecs |-> max_vecs, focks |-> <<>>, errors |-> <<>>]

\* a push that evicts the newest stored pair instead of the oldest
DiisPushEvictNewest(d, fock, error) ==
    LET fs == Append(d.focks, fock)
        es == Append(d.errors, flatten(error))
        k == Len(fs) - 1
    IN  IF Len(fs) > d.max_vecs
        THEN [d EXCEPT !.focks = IF k = 0 THEN <<>> ELSE SubSeq(fs, 1, k - 1) \o <<fs[k + 1]>>,
                       !.errors = IF k = 0 THEN <<>> ELSE SubSeq(es, 1, k - 1) \o <<es[k + 1]>>]
        ELSE [d EXCEPT !.focks = fs, !.errors = es]

\* a push that forgets to evict the error vector
DiisPushKeepError(d, fock, error) ==
    LET fs == Append(d.focks, fock)
        es == Append(d.errors, flatten(error))
    IN  IF Len(fs) > d.max_vecs
        THEN [d EXCEPT !.focks = Tail(fs), !.errors = es]
        ELSE [d EXCEPT !.focks = fs, !.errors = es]

\* a push whose history shares the caller's working matrix: the pair stored
\* last is overwritten by the one pushed now
DiisPushShared(d, fock, error) ==
    LET n == Len(d.focks)
        fs == Append([i \in 1..n |-> IF i = n THEN fock ELSE d.focks[i]], fock)
        es == Append(d.errors, flatten(error))
    IN  IF Len(fs) > d.max_vecs
        THEN [d EXCEPT !.focks = Tail(fs), !.errors = Tail(es)]
        ELSE [d EXCEPT !.focks = fs, !.errors = es]

DiisPush(d, fock, error) ==
    LET fs == Append(d.focks, fock)
        es == Append(d.errors, flatten(error))
    IN  IF Len(fs) > d.max_vecs
        THEN [d EXCEPT !.focks = Tail(fs), !.errors = Tail(es)]
        ELSE [d EXCEPT !.focks = fs, !.errors = es]

\* the (m+1) x (m+1) matrix B of extrapolate
DiisB(errors) ==
    LET m == Len(errors)
    IN  Tup([i \in 1..(m + 1) |-> Tup([j \in 1..(m + 1) |->
            IF i <= m /\ j <= m THEN dot(errors[i], errors[j])
            ELSE IF i = m + 1 /\ j = m + 1 THEN RZero
            ELSE RNeg(ROne)])])

DiisRhs(m) == Tup([i \in 1..(m + 1) |-> IF i = m + 1 THEN RNeg(ROne) ELSE RZero])

\* the coefficient-weighted sum of the stored Fock matrices
RECURSIVE Combine(_, _, _)
Combine(coeffs, focks, i) ==
    IF i = 0 THEN ZeroMat(Len(focks[1]))
    ELSE MatAdd(Combine(coeffs, focks, i - 1), MatScale(coeffs[i], focks[i]))

DiisExtrapolateWith(d, min_vecs) ==
    LET m == Len(d.errors)
    IN  IF m < min_vecs THEN None
        ELSE LET coeffs == solve_linear(DiisB(d.errors), DiisRhs(m))
             IN  IF IsSome(coeffs)
                 THEN Some(Combine(Unwrap(coeffs), d.focks, m))
                 ELSE None

\* an extrapolate whose history test is off by one
DiisExtrapolateMin1(d) == DiisExtrapolateWith(d, 1)

DiisExtrapolate(d) == DiisExtrapolateWith(d, 2)

\* ---------------------------------------------------------------------
\* Inputs of the SCF drivers: a two-function AO basis, every shell holding
\* one s-type orbital
\* ---------------------------------------------------------------------

\* H = T + V: one core Hamiltonian that mixes the two orbitals and two that
\* are diagonal (the orbitals do not couple)
HCoreVals == { IntMat(<<<<-1, 1>>, <<1, -1>>>>),
               IntMat(<<<<0, 0>>, <<0, 1>>>>),
               IntMat(<<<<-1, 0>>, <<0, 0>>>>) }

\* S
Overlap == IntMat(<<<<1, 0>>, <<0, 1>>>>)

\* nao = sum of n_orbitals() over the shells
Nao == Len(Overlap)

\* (mu nu | lam sig), as eri_shell_shell_shell_shell hands it to build_jk
Eri(mu, nu, lam, sig) == IF mu = nu /\ lam = sig THEN ROne ELSE RZero

\* ---------------------------------------------------------------------
\* Numerical kernels of the drivers
\* ---------------------------------------------------------------------

Half == <<1, 2>>
RSq(x) == RMul(x, x)

AO == 1..Nao
AOPairs == Tup([i \in 1..(Nao * Nao) |-> <<((i - 1) \div Nao) + 1, ((i - 1) % Nao) + 1>>])

\* sum over all AO pairs (i, j) of a[i][j] * b[i][j]
Contract(a, b) == RSum([q \in 1..Len(AOPairs) |->
                    RMul(a[AOPairs[q][1]][AOPairs[q][2]], b[AOPairs[q][1]][AOPairs[q][2]])])

\* build_jk: J[mu][nu] += P[lam][sig] * eri,  K[mu][lam] += P[nu][sig] * eri
build_j(density) ==
    Tup([mu \in AO |-> Tup([nu \in AO |->
        RSum([q \in 1..Len(AOPairs) |->
            RMul(density[AOPairs[q][1]][AOPairs[q][2]],
                 Eri(mu, nu, AOPairs[q][1], AOPairs[q][2]))])])])

build_k(density) ==
    Tup([mu \in AO |-> Tup([lam \in AO |->
        RSum([q \in 1..Len(AOPairs) |->
            RMul(density[AOPairs[q][1]][AOPairs[q][2]],
                 Eri(mu, AOPairs[q][1], lam, AOPairs[q][2]))])])])

\* scf_cycle: fock = h_core + 2 J - K
RhfFock(h, j, k) == MatSub(MatAdd(h, MatScale(R(2), j)), k)

\* build_fock of run_uhf: F_sigma = Hcore + J[P_total] - K[P_sigma]
build_fock(hcore, j, k) == MatSub(MatAdd(hcore, j), k)

\* build_fock_scaled of run_udft: the exchange enters scaled by hf_frac
build_fock_scaled(hcore, j, k, hf_frac) ==
    MatSub(MatAdd(hcore, j), MatScale(hf_frac, k))

\* columns 1..n_occ of the coefficient matrix, contracted with themselves
OccSum(coeff, n_occ, mu, nu) ==
    RSum([i \in 1..n_occ |-> RMul(coeff[mu][i], coeff[nu][i])])

\* build_density: P = 2 * sum over the n_electrons / 2 occupied columns
build_density(coeff, n_electrons) ==
    Tup([mu \in 1..Len(coeff) |-> Tup([nu \in 1..Len(coeff) |->
        RMul(R(2), OccSum(coeff, n_electrons \div 2, mu, nu))])])

\* build_spin_density: P = sum over the n_electrons occupied columns
build_spin_density(coeff, n_electrons) ==
    Tup([mu \in 1..Len(coeff) |-> Tup([nu \in 1..Len(coeff) |->
        OccSum(coeff, n_electrons, mu, nu)])])

\* diis_error: e = F P S - S P F
diis_error(fock, density, overlap) ==
    MatSub(MatMul(MatMul(fock, density), overlap),
           MatMul(MatMul(overlap, density), fock))

\* the square of rms_density_diff: sum of squared differences / nao^2
MeanSqDiff(p_old, p_new) ==
    LET d == MatSub(p_new, p_old)
        nao == Len(p_old)
    IN  RDiv(Contract(d, d), R(nao * nao))

\* sqrt(a) + sqrt(b) < t, for a, b >= 0, decided without taking roots
SumSqrtLt(a, b, t) ==
    LET r == RSub(RSub(RSq(t), a), b)
    IN  /\ RLt(RZero, t)
        /\ RLt(RZero, r)
        /\ RLt(RMul(R(4), RMul(a, b)), RSq(r))

\* scf_cycle: 0.5 * sum p_new[i][j] * (h_core[i][j] + fock[i][j])
RhfEnergy(p_new, h, fock) == RMul(Half, Contract(p_new, MatAdd(h, fock)))

\* electronic_energy_scaled as run_udft calls it
electronic_energy_scaled(density, hcore, j, k, hf_frac) ==
    RMul(Half, Contract(density,
        MatAdd(hcore, build_fock_scaled(hcore, j, k, hf_frac))))

\* uhf_energy: 0.5 * sum [ (Pa + Pb) Hcore + Pa Fa + Pb Fb ]
uhf_energy(p_a, p_b, hcore, j, k_a, k_b) ==
    RMul(Half,
        RAdd(Contract(MatAdd(p_a, p_b), hcore),
             RAdd(Contract(p_a, build_fock(hcore, j, k_a)),
                  Contract(p_b, build_fock(hcore, j, k_b)))))

\* ---------------------------------------------------------------------
\* State
\* ---------------------------------------------------------------------

VARIABLES
    dq,          \* a Diis object driven directly through push / extrapolate
    hist,        \* every (fock, error) pair pushed into dq so far, in push order
    ext,         \* what the last extrapolate call on dq returned
    lastOp,      \* the last operation applied to dq
    inp,         \* the arguments of the running SCF driver
    pc,          \* where the driver stands
    iter,        \* the loop variable of the driver
    p,           \* density per channel: <<p>> or <<p_alpha, p_beta>>
    energy_old,  \* energy_old / e_old
    jk,          \* [j, k]: Coulomb matrix and per-channel exchange matrices
    fock,        \* the Fock matrix assembled in this iteration, per channel
    dft_energy,  \* [exc, int_rho_vxc] of this iteration
    diis,        \* diis_a, diis_b
    extr,        \* what extrapolate returned in this iteration, per channel
    fdiag,       \* the Fock matrix handed to solve_roothaan, per channel
    coeff,       \* MO coefficients of this iteration, per channel
    p_new,       \* new density per channel
    energy,      \* energy of this iteration
    delta_e,     \* |energy - energy_old|
    dP2,         \* mean squared density change per channel (dP = sum of roots)
    outcome,     \* "running", "Converged" or "Failed"
    result,      \* the value returned to the caller, if any
    panic,       \* the panic message, if the process was aborted
    eig,         \* solve_roothaan as a function: Fock matrix -> coefficients
    grid,        \* the grid quadrature as a function: densities -> XC sums
    steps,       \* the steps of the current iteration taken so far
    iters,       \* iterations started in this run
    run,         \* 1 for the first run, 2 for the re-run
    first,       \* what the first run returned and how many iterations it took
    call,        \* the library function called on its own, with its arguments
    ret,         \* what that call returned, or the panic it ended in
    backend,     \* the functional backend: every handle xc_func_init gave out
    frame,       \* the frame of the running build_vxc / build_vxc_udft call
    geo          \* the frame of the running optimize call and its optimizer

diisVars == <<dq, hist, ext, lastOp>>
iterVars == <<jk, fock, dft_energy, extr, fdiag, coeff, p_new, energy, delta_e, dP2>>
loopVars == <<iter, p, energy_old, diis>>
memoVars == <<eig, grid>>
ghostVars == <<steps, iters, run, first>>
endVars == <<outcome, result, panic>>
scfVars == <<inp, pc, iterVars, loopVars, memoVars, ghostVars, endVars>>
xcVars == <<backend, frame>>
libVars == <<call, ret, xcVars, geo>>
vars == <<diisVars, scfVars, libVars>>

\* no library function has been called on its own
NoCall == [fn |-> "none"]
NoFrame == [pc |-> "idle", owned |-> <<>>, point |-> 0, msg |-> "",
            exc |-> <<>>, int_rho_vxc |-> <<>>, vxc |-> <<>>]
\* optimize has not been called
NoOptimize == [pc |-> "idle"]

LibIdle ==
    call = NoCall /\ ret = None /\ backend = <<>> /\ frame = NoFrame /\ geo = NoOptimize

\* ---------------------------------------------------------------------
\* The Diis object on its own: new, push, extrapolate
\* ---------------------------------------------------------------------

MaxVecs == 3      \* capacities 0..MaxVecs are tried
MaxPushes == 3    \* pushes per Diis object

DiisFockVals ==
    { IntMat(<<<<1, 0>>, <<0, 2>>>>), IntMat(<<<<0, 1>>, <<1, 0>>>>) }

DiisErrVals ==
    { IntMat(<<<<0, 0>>, <<0, 0>>>>),
      IntMat(<<<<0, 1>>, <<-1, 0>>>>),
      IntMat(<<<<0, 2>>, <<-2, 0>>>>) }

DiisObjInit ==
    /\ \E m \in 0..MaxVecs : dq = DiisNew(m)
    /\ hist = <<>>
    /\ ext = None
    /\ lastOp = "new"

Push ==
    /\ UNCHANGED <<scfVars, libVars>>
    /\ Len(hist) < MaxPushes
    /\ \E f \in DiisFockVals, e \in DiisErrVals :
          /\ dq' = DiisPush(dq, f, e)
          /\ hist' = Append(hist, <<f, e>>)
    /\ lastOp' = "push"
    /\ UNCHANGED ext

Extrapolate ==
    /\ UNCHANGED <<scfVars, libVars>>
    /\ ext' = DiisExtrapolate(dq)
    /\ lastOp' = "extrapolate"
    /\ UNCHANGED <<dq, hist>>

DiisNext == Push \/ Extrapolate

\* ---------------------------------------------------------------------
\* Properties of the Diis object
\* ---------------------------------------------------------------------

Min(a, b) == IF a < b THEN a ELSE b

\* the determinant, by expansion along the first row
DropAt(s, j) == Tup([k \in 1..(Len(s) - 1) |-> IF k < j THEN s[k] ELSE s[k + 1]])
Minor(a, j) == Tup([i \in 1..(Len(a) - 1) |-> DropAt(a[i + 1], j)])

RECURSIVE Det(_)
Det(a) ==
    IF Len(a) = 1 THEN a[1][1]
    ELSE RSum([j \in 1..Len(a) |->
            LET t == RMul(a[1][j], Det(Minor(a, j)))
            IN  IF j % 2 = 1 THEN t ELSE RNeg(t)])

\* the last n pairs pushed, oldest first
LastPushed(n) == Tup([i \in 1..n |-> hist[Len(hist) - n + i]])

\* C4: after any sequence of push and extrapolate calls on a Diis of
\* capacity M, as many Fock matrices as error vectors are stored, and at
\* most M of them.
C4_HistoryBounded ==
    /\ Len(dq.focks) = Len(dq.errors)
    /\ Len(dq.focks) <= dq.max_vecs

C4_Witness ==
    /\ lastOp = "extrapolate"
    /\ dq.max_vecs >= 1
    /\ Len(hist) > dq.max_vecs
    /\ Len(dq.focks) = dq.max_vecs

\* C5: after k pushes into a Diis of capacity M the history holds exactly
\* the last min(k, M) pushed pairs, in push order, every Fock matrix at the
\* same position as the (flattened) error pushed with it.
C5_LastPairsKept ==
    LET n == Min(Len(hist), dq.max_vecs)
        kept == LastPushed(n)
    IN  /\ dq.focks = [i \in 1..n |-> kept[i][1]]
        /\ dq.errors = [i \in 1..n |-> flatten(kept[i][2])]

C5_Witness ==
    /\ dq.max_vecs = 2
    /\ Len(hist) = 3
    /\ hist[1] # hist[2] /\ hist[2] # hist[3] /\ hist[1] # hist[3]
    /\ dq.focks = <<hist[2][1], hist[3][1]>>

\* C6: extrapolate returns None whenever fewer than 2 pairs are stored.
C6_NoneBelowTwo ==
    (lastOp = "extrapolate" /\ Len(dq.errors) < 2) => ext = None

C6_Witness ==
    /\ lastOp = "extrapolate"
    /\ Len(dq.errors) = 1
    /\ ext = None

DiisSomeReached == ~(lastOp = "extrapolate" /\ IsSome(ext))

\* ---------------------------------------------------------------------
\* XC method selection and build_vxc / build_vxc_udft
\* ---------------------------------------------------------------------

LDA == <<"LDA">>
GGA == <<"GGA">>
MetaGGA == <<"MetaGGA">>
HybridOf(base, hyb) == <<"Hybrid", base, hyb>>

\* Hybrid::hf_fraction
hf_fraction(hyb) ==
    CASE hyb = "None" -> RZero
      [] hyb = "PBE0" -> <<1, 4>>
      [] hyb = "B3LYP" -> <<1, 5>>

\* (xc_base, hf_frac) = match method { Hybrid { base, hyb } => ..., other => (other, 0.0) }
XcBase(method) == IF method[1] = "Hybrid" THEN method[2] ELSE method
XcHfFrac(method) == IF method[1] = "Hybrid" THEN hf_fraction(method[3]) ELSE RZero

\* run_udft: hf_frac = match xc { Hybrid { hyb, .. } => hyb.hf_fraction(), _ => 0.0 }
udft_hf_frac(xc) == IF xc[1] = "Hybrid" THEN hf_fraction(xc[3]) ELSE RZero

\* the raw quadrature sums a density can give.  A zero density leaves every
\* grid point below the floor; any other density either does the same or
\* gives the sums of XcDense.
XcEmpty == [dense |-> FALSE, vxc |-> ZeroMat(Nao), exc |-> RZero, int_rho_vxc |-> RZero]
XcDense == [dense |-> TRUE, vxc |-> IntMat(<<<<-1, 0>>, <<0, -1>>>>),
            exc |-> R(-1), int_rho_vxc |-> R(-2)]
GridVals(rho) ==
    IF rho \in DOMAIN grid THEN {grid[rho]}
    ELSE IF rho = ZeroMat(Nao) THEN {XcEmpty}
    ELSE {XcEmpty, XcDense}

\* build_vxc and build_vxc_udft after the quadrature sums q are known:
\* <<"panic", message>> or <<"ok", vxc, exc, int_rho_vxc>>
build_vxc(q, has_coeff, method) ==
    LET xc_base == XcBase(method)
        scale == RSub(ROne, XcHfFrac(method))
    IN  IF xc_base[1] \notin {"LDA", "GGA", "MetaGGA"}
        THEN <<"panic", "unreachable">>
        ELSE IF xc_base[1] = "MetaGGA" /\ q.dense /\ ~has_coeff
        THEN <<"panic", "meta-GGA requires coeff">>
        ELSE <<"ok", MatScale(scale, q.vxc), RMul(scale, q.exc),
               RMul(scale, q.int_rho_vxc)>>

\* ---------------------------------------------------------------------
\* The SCF drivers scf_cycle, run_uhf, run_udft
\* ---------------------------------------------------------------------

MaxIter == 3      \* max_iter ranges over 0..MaxIter

Drivers == {"scf_cycle", "run_uhf", "run_udft"}
Unrestricted == {"run_uhf", "run_udft"}

\* capacity of diis_a and diis_b
DiisCapacity == 6

ConvTols == { <<1, 2>>, R(3) }

XcChoices(driver) ==
    CASE driver = "scf_cycle" ->
            { None, Some(LDA), Some(MetaGGA), Some(HybridOf(GGA, "PBE0")),
              Some(HybridOf(HybridOf(LDA, "B3LYP"), "PBE0")) }
      [] driver = "run_uhf" -> { None }
      [] driver = "run_udft" ->
            { Some(LDA), Some(MetaGGA), Some(HybridOf(GGA, "B3LYP")),
              Some(HybridOf(HybridOf(LDA, "B3LYP"), "PBE0")) }

\* what solve_roothaan may return for a Fock matrix it has not seen yet
CoeffVals == { IntMat(<<<<1, 0>>, <<0, 1>>>>), IntMat(<<<<0, 1>>, <<1, 0>>>>) }

EigVals(f) == IF f \in DOMAIN eig THEN {eig[f]} ELSE CoeffVals
Memo(fn, key, val) == IF key \in DOMAIN fn THEN fn ELSE fn @@ (key :> val)

Chan == IF inp.driver \in Unrestricted THEN {1, 2} ELSE {1}
NoMat == <<>>
NoIterVals ==
    /\ jk = [j |-> NoMat, k |-> <<>>]
    /\ fock = <<>>
    /\ dft_energy = None
    /\ extr = <<>>
    /\ fdiag = <<>>
    /\ coeff = <<>>
    /\ p_new = <<>>
    /\ energy = RZero
    /\ delta_e = RZero
    /\ dP2 = <<>>

\* no driver has been entered yet
ScfFresh ==
    /\ iter = 0
    /\ p = <<>>
    /\ energy_old = RZero
    /\ diis = <<>>
    /\ NoIterVals
    /\ outcome = "running"
    /\ result = None
    /\ panic = None
    /\ eig = <<>>
    /\ grid = <<>>
    /\ steps = <<>>
    /\ iters = 0
    /\ run = 1
    /\ first = None

ScfObjInit ==
    /\ \E d \in Drivers, m \in 0..MaxIter, t \in ConvTols, h \in HCoreVals :
         \E x \in XcChoices(d) :
            inp = [driver |-> d, max_iter |-> m, conv_tol |-> t, xc_method |-> x,
                   h_core |-> h, nelec |-> 2, n_alpha |-> 1, n_beta |-> 1]
    /\ pc = "entry"
    /\ ScfFresh

\* the function prologue: densities, energy_old, Diis objects
Enter ==
    /\ pc = "entry"
    /\ UNCHANGED <<diisVars, libVars>>
    /\ IF inp.driver = "scf_cycle"
       THEN /\ p' = <<ZeroMat(Nao)>>
            /\ diis' = <<>>
            /\ UNCHANGED eig
       ELSE \* core_h_guess: solve_roothaan(hcore, s), build_density
            \E c \in EigVals(inp.h_core) :
               LET p0 == build_density(c, inp.n_alpha + inp.n_beta)
               IN  /\ eig' = Memo(eig, inp.h_core, c)
                   /\ p' = <<p0, p0>>
                   /\ diis' = <<DiisNew(DiisCapacity), DiisNew(DiisCapacity)>>
    /\ energy_old' = RZero
    /\ iter' = 0
    /\ pc' = "loop"
    /\ UNCHANGED <<inp, iterVars, grid, ghostVars, endVars>>

\* a loop that runs once too often
LoopContinuesInclusive(i, max_iter) == i <= max_iter

\* for iter in 0..max_iter
LoopContinues(i, max_iter) == i < max_iter

Abort(msg) ==
    /\ outcome' = "Failed"
    /\ panic' = Some(msg)
    /\ result' = None
    /\ pc' = "done"

\* J and K, the Fock matrix, and for DFT the XC matrix and energies
BuildFock ==
    /\ pc = "loop"
    /\ LoopContinues(iter, inp.max_iter)
    /\ UNCHANGED <<diisVars, libVars>>
    /\ iters' = iters + 1
    /\ UNCHANGED <<inp, loopVars, eig, run, first, extr, fdiag, coeff, p_new,
                   energy, delta_e, dP2>>
    /\ IF inp.driver = "scf_cycle"
       THEN LET j_mat == build_j(p[1])
                k_mat == build_k(p[1])
                f0 == RhfFock(inp.h_core, j_mat, k_mat)
            IN  /\ jk' = [j |-> j_mat, k |-> <<k_mat>>]
                /\ IF IsSome(inp.xc_method)
                   THEN \E q \in GridVals(p[1]) :
                          LET v == build_vxc(q, FALSE, Unwrap(inp.xc_method))
                          IN  /\ grid' = Memo(grid, p[1], q)
                              /\ IF v[1] = "panic"
                                 THEN /\ Abort(v[2])
                                      /\ UNCHANGED <<fock, dft_energy, steps>>
                                 ELSE /\ fock' = <<MatAdd(f0, v[2])>>
                                      /\ dft_energy' = Some([exc |-> v[3], int_rho_vxc |-> v[4]])
                                      /\ steps' = <<"fock">>
                                      /\ pc' = "solve"
                                      /\ UNCHANGED endVars
                   ELSE /\ fock' = <<f0>>
                        /\ dft_energy' = None
                        /\ steps' = <<"fock">>
                        /\ pc' = "solve"
                        /\ UNCHANGED <<grid, endVars>>
       ELSE LET p_tot == MatAdd(p[1], p[2])
                j == build_j(p_tot)
                k_a == build_k(p[1])
                k_b == build_k(p[2])
            IN  /\ jk' = [j |-> j, k |-> <<k_a, k_b>>]
                /\ IF inp.driver = "run_uhf"
                   THEN /\ fock' = <<build_fock(inp.h_core, j, k_a), build_fock(inp.h_core, j, k_b)>>
                        /\ dft_energy' = None
                        /\ steps' = <<"fock">>
                        /\ pc' = "push"
                        /\ UNCHANGED <<grid, endVars>>
                   ELSE LET xc == Unwrap(inp.xc_method)
                            hf_frac == udft_hf_frac(xc)
                        IN  \E q \in GridVals(p_tot) :
                              LET v == build_vxc(q, FALSE, xc)
                              IN  /\ grid' = Memo(grid, p_tot, q)
                                  /\ IF v[1] = "panic"
                                     THEN /\ Abort(v[2])
                                          /\ UNCHANGED <<fock, dft_energy, steps>>
                                     ELSE /\ fock' = <<MatAdd(build_fock_scaled(inp.h_core, j, k_a, hf_frac), v[2]),
                                                       MatAdd(build_fock_scaled(inp.h_core, j, k_b, hf_frac), v[2])>>
                                          /\ dft_energy' = Some([exc |-> v[3], int_rho_vxc |-> v[4]])
                                          /\ steps' = <<"fock">>
                                          /\ pc' = "push"
                                          /\ UNCHANGED endVars

\* diis_error for both channels, then diis_a.push and diis_b.push
DiisPushStep ==
    /\ pc = "push"
    /\ UNCHANGED <<diisVars, libVars>>
    /\ diis' = [c \in 1..2 |->
                  DiisPush(diis[c], fock[c], diis_error(fock[c], p[c], Overlap))]
    /\ steps' = Append(steps, "push")
    /\ pc' = "extrapolate"
    /\ UNCHANGED <<inp, iterVars, iter, p, energy_old, memoVars, iters, run, first, endVars>>

\* a fallback that drops the assembled Fock matrix
FallbackZero(o, f) == IF IsSome(o) THEN Unwrap(o) ELSE ZeroMat(Len(f))

\* diis.extrapolate().unwrap_or(f)
FallbackFock(o, f) == UnwrapOr(o, f)

\* extrapolate on both channels; the result replaces f_alpha / f_beta
DiisExtrapolateStep ==
    /\ pc = "extrapolate"
    /\ UNCHANGED <<diisVars, libVars>>
    /\ extr' = [c \in 1..2 |-> DiisExtrapolate(diis[c])]
    /\ fdiag' = [c \in 1..2 |-> FallbackFock(DiisExtrapolate(diis[c]), fock[c])]
    /\ steps' = Append(steps, "extrapolate")
    /\ pc' = "solve"
    /\ UNCHANGED <<inp, jk, fock, dft_energy, coeff, p_new, energy, delta_e, dP2,
                   loopVars, memoVars, iters, run, first, endVars>>

\* the Fock matrix that goes into solve_roothaan
SolveInput(c) == IF inp.driver = "scf_cycle" THEN fock[c] ELSE fdiag[c]

SolveRoothaan ==
    /\ pc = "solve"
    /\ UNCHANGED <<diisVars, libVars>>
    /\ IF inp.driver = "scf_cycle"
       THEN \E c \in EigVals(SolveInput(1)) :
               /\ coeff' = <<c>>
               /\ eig' = Memo(eig, SolveInput(1), c)
       ELSE \E c_a \in EigVals(SolveInput(1)) :
               \E c_b \in (IF SolveInput(2) = SolveInput(1) THEN {c_a}
                           ELSE EigVals(SolveInput(2))) :
                  /\ coeff' = <<c_a, c_b>>
                  /\ eig' = Memo(Memo(eig, SolveInput(1), c_a), SolveInput(2), c_b)
    /\ steps' = Append(steps, "solve")
    /\ pc' = "density"
    /\ UNCHANGED <<inp, jk, fock, dft_energy, extr, fdiag, p_new, energy, delta_e,
                   dP2, loopVars, grid, iters, run, first, endVars>>

BuildDensity ==
    /\ pc = "density"
    /\ UNCHANGED <<diisVars, libVars>>
    /\ p_new' = IF inp.driver = "scf_cycle"
                THEN <<build_density(coeff[1], inp.nelec)>>
                ELSE <<build_spin_density(coeff[1], inp.n_alpha),
                       build_spin_density(coeff[2], inp.n_beta)>>
    /\ steps' = Append(steps, "density")
    /\ pc' = "test"
    /\ UNCHANGED <<inp, jk, fock, dft_energy, extr, fdiag, coeff, energy, delta_e,
                   dP2, loopVars, memoVars, iters, run, first, endVars>>

\* the correction applied twice
XcCorrectionTwice(xc_method, dft) ==
    IF IsSome(xc_method)
    THEN RMul(R(2), RSub(Unwrap(dft).exc, Unwrap(dft).int_rho_vxc))
    ELSE RZero

\* scf_cycle: if options.xc_method.is_some() { energy += exc - int_rho_vxc }
XcCorrection(xc_method, dft) ==
    IF IsSome(xc_method)
    THEN RSub(Unwrap(dft).exc, Unwrap(dft).int_rho_vxc)
    ELSE RZero

\* the energy of the iteration
IterEnergy ==
    LET corr == IF IsSome(dft_energy)
                THEN RSub(Unwrap(dft_energy).exc, Unwrap(dft_energy).int_rho_vxc)
                ELSE RZero
    IN  CASE inp.driver = "scf_cycle" ->
               RAdd(RhfEnergy(p_new[1], inp.h_core, fock[1]),
                    XcCorrection(inp.xc_method, dft_energy))
          [] inp.driver = "run_uhf" ->
               uhf_energy(p_new[1], p_new[2], inp.h_core, jk.j, jk.k[1], jk.k[2])
          [] inp.driver = "run_udft" ->
               LET p_tot == MatAdd(p[1], p[2])
                   hf_frac == udft_hf_frac(Unwrap(inp.xc_method))
               IN  RAdd(RAdd(electronic_energy_scaled(p_tot, inp.h_core, jk.j, jk.k[1], hf_frac),
                             electronic_energy_scaled(p_tot, inp.h_core, jk.j, jk.k[2], hf_frac)),
                        corr)

\* the convergence test of the drivers: scf_cycle tests delta_e alone,
\* run_uhf and run_udft test dE and dP = rms_a + rms_b
Converged(driver, dE, msq, tol) ==
    IF driver = "scf_cycle" THEN RLt(dE, tol)
    ELSE RLt(dE, tol) /\ SumSqrtLt(msq[1], msq[2], tol)

\* energy, delta_e, dP and the convergence test; return or carry on
ConvergenceTest ==
    /\ pc = "test"
    /\ UNCHANGED <<diisVars, libVars>>
    /\ LET e == IterEnergy
           dE == RAbs(RSub(e, energy_old))
           msq == [c \in 1..Len(p) |-> MeanSqDiff(p[c], p_new[c])]
       IN  /\ energy' = e
           /\ delta_e' = dE
           /\ dP2' = msq
           /\ IF Converged(inp.driver, dE, msq, inp.conv_tol)
              THEN /\ outcome' = "Converged"
                   /\ result' = Some([energy |-> e, density |-> p_new])
                   /\ pc' = "done"
                   /\ first' = IF run = 1
                               THEN Some([iters |-> iters, density |-> p_new])
                               ELSE first
                   /\ UNCHANGED <<p, energy_old, iter, panic>>
              ELSE /\ p' = p_new
                   /\ energy_old' = e
                   /\ iter' = iter + 1
                   /\ pc' = "loop"
                   /\ UNCHANGED <<endVars, first>>
    /\ UNCHANGED <<inp, jk, fock, dft_energy, extr, fdiag, coeff, p_new, diis,
                   memoVars, steps, iters, run>>

\* the loop is exhausted: panic!("... did not converge ...")
GiveUp ==
    /\ pc = "loop"
    /\ ~LoopContinues(iter, inp.max_iter)
    /\ UNCHANGED <<diisVars, libVars>>
    /\ Abort("did not converge")
    /\ UNCHANGED <<inp, iterVars, loopVars, memoVars, ghostVars>>

\* the caller runs the driver once more on the same molecule, holding the
\* converged density of the first run as the guess it would like to start from
Rerun ==
    /\ pc = "done"
    /\ outcome = "Converged"
    /\ run = 1
    /\ UNCHANGED <<diisVars, libVars>>
    /\ run' = 2
    /\ pc' = "entry"
    /\ outcome' = "running"
    /\ result' = None
    /\ iters' = 0
    /\ steps' = <<>>
    /\ jk' = [j |-> NoMat, k |-> <<>>]
    /\ fock' = <<>>
    /\ dft_energy' = None
    /\ extr' = <<>>
    /\ fdiag' = <<>>
    /\ coeff' = <<>>
    /\ p_new' = <<>>
    /\ energy' = RZero
    /\ delta_e' = RZero
    /\ dP2' = <<>>
    /\ UNCHANGED <<inp, loopVars, memoVars, panic, first>>

ScfStep ==
    \/ Enter
    \/ BuildFock
    \/ DiisPushStep
    \/ DiisExtrapolateStep
    \/ SolveRoothaan
    \/ BuildDensity
    \/ ConvergenceTest
    \/ GiveUp

ScfNext == ScfStep \/ Rerun

\* ---------------------------------------------------------------------
\* Specifications
\* ---------------------------------------------------------------------

\* the Diis object exercised on its own; no driver runs
DiisInit ==
    /\ DiisObjInit
    /\ LibIdle
    /\ ScfObjInit
    /\ inp.driver = "scf_cycle" /\ inp.max_iter = 0
    /\ inp.conv_tol = R(3) /\ inp.xc_method = None
    /\ inp.h_core = IntMat(<<<<-1, 1>>, <<1, -1>>>>)

SpecDiis == DiisInit /\ [][DiisNext]_vars

\* the drivers; the free-standing Diis object is left as created
ScfInit ==
    /\ dq = DiisNew(0) /\ hist = <<>> /\ ext = None /\ lastOp = "new"
    /\ LibIdle
    /\ ScfObjInit

SpecScf == ScfInit /\ [][ScfNext]_vars

Spec == SpecScf

\* ---------------------------------------------------------------------
\* Properties of the SCF drivers
\* ---------------------------------------------------------------------

\* dP < conv_tol, with dP the sum over the channels of the rms density change
DensityChangeBelowTol ==
    IF Len(dP2) = 1 THEN SumSqrtLt(dP2[1], RZero, inp.conv_tol)
    ELSE SumSqrtLt(dP2[1], dP2[2], inp.conv_tol)

RunEnded == pc = "done"

\* the outcome is one of two, and is set exactly when the run has ended
C1_Outcomes ==
    /\ outcome \in {"running", "Converged", "Failed"}
    /\ iters <= inp.max_iter
    /\ RunEnded <=> outcome # "running"
    /\ outcome = "Converged" <=> IsSome(result)
    /\ outcome = "Failed" <=> IsSome(panic)

\* an ended run changes nothing any more
C1_NothingAfterEnd ==
    (outcome # "running" /\ run' = run) =>
        /\ UNCHANGED <<iters, outcome, result, panic, p, diis, steps>>

\* an upper bound on the steps the run still takes: six per iteration left
StepsLeft ==
    CASE pc = "done" -> 0
      [] pc = "entry" -> inp.max_iter * 6 + 7
      [] pc = "loop" -> (inp.max_iter - iter) * 6 + 6
      [] pc = "push" -> (inp.max_iter - iter) * 6 + 5
      [] pc = "extrapolate" -> (inp.max_iter - iter) * 6 + 4
      [] pc = "solve" -> (inp.max_iter - iter) * 6 + 3
      [] pc = "density" -> (inp.max_iter - iter) * 6 + 2
      [] pc = "test" -> (inp.max_iter - iter) * 6 + 1

\* every step of a run brings its end nearer
C1_Progress == (run' = run) => (StepsLeft' < StepsLeft /\ StepsLeft' >= 0)

\* C1: every run of a driver ends, after at most max_iter iterations, either
\* Converged (a result is returned) or Failed (the run is aborted and nothing
\* is returned); every step brings the end of the run nearer, and no
\* iteration is executed after the run has ended.
C1_TwoOutcomes ==
    /\ []C1_Outcomes
    /\ [][C1_NothingAfterEnd /\ C1_Progress]_vars

C1_Witness ==
    /\ inp.driver = "run_uhf"
    /\ inp.max_iter >= 2
    /\ outcome = "Failed"
    /\ iters = inp.max_iter

\* C2: a driver reaches Converged only in an iteration whose energy change
\* and density change are both below the tolerance.
C2_ConvergedNeedsBoth ==
    outcome = "Converged" =>
        /\ RLt(delta_e, inp.conv_tol)
        /\ DensityChangeBelowTol

\* C3: when max_iter iterations pass without convergence the driver hands
\* the caller a failure value carrying the last energy and density, and the
\* process is not aborted.
C3_TypedFailure ==
    (RunEnded /\ outcome = "Failed" /\ iters = inp.max_iter /\ iter = inp.max_iter) =>
        /\ panic = None
        /\ IsSome(result)
        /\ Unwrap(result).energy = energy_old
        /\ Unwrap(result).density = p

\* a channel without an extrapolation diagonalizes this iteration's Fock
C8_Fallback ==
    (inp.driver \in Unrestricted /\ pc \in {"solve", "density", "test"}) =>
        \A c \in 1..2 : extr[c] = None => fdiag[c] = fock[c]

\* the extrapolation step always hands over to the eigen-solve
C8_RunContinues ==
    pc = "extrapolate" => (pc' = "solve" /\ outcome' = "running" /\ panic' = None)

\* C8: in run_uhf and run_udft a channel for which extrapolate returned None
\* diagonalizes the Fock matrix assembled in this iteration, and the
\* extrapolation step never ends the run.
C8_FallbackNotFatal ==
    /\ []C8_Fallback
    /\ [][C8_RunContinues]_vars

\* a singular system in the third iteration
C8_Witness ==
    /\ inp.driver = "run_uhf"
    /\ pc = "density"
    /\ Len(diis[1].errors) = 3
    /\ Det(DiisB(diis[1].errors)) = RZero
    /\ extr[1] = None
    /\ fdiag[1] = fock[1]

\* the order of the steps of one iteration in the design
IterationOrder == <<"fock", "push", "extrapolate", "solve", "density">>

\* C9: in every iteration of every driver the Fock matrix is pushed to the
\* DIIS history and an extrapolation is attempted before the eigenproblem is
\* solved, and the eigenproblem is solved before the new density is built.
C9_DiisBeforeSolve ==
    /\ Len(steps) <= Len(IterationOrder)
    /\ steps = SubSeq(IterationOrder, 1, Len(steps))

\* C10: re-run with the converged density of a first run as the guess, the
\* driver converges in exactly one iteration.
C10_RerunOneIteration ==
    (run = 2 /\ RunEnded) => (outcome = "Converged" /\ iters = 1)

\* ---------------------------------------------------------------------
\* Energy and Fock assembly of the restricted driver
\* ---------------------------------------------------------------------

\* an iteration of scf_cycle has just computed its energy
RhfEnergyComputed ==
    /\ inp.driver = "scf_cycle"
    /\ pc \in {"loop", "done"}
    /\ p_new # <<>>

ExchangeFraction(xc_method) ==
    IF IsSome(xc_method) THEN XcHfFrac(Unwrap(xc_method)) ELSE ROne

\* C12: the Fock matrix that scf_cycle hands to the eigen-solver is
\* Hcore + 2J - a*K (+ vxc when a functional is active), with a the HF
\* exchange fraction of the method and a = 1 only for plain HF.
C12_ExchangeScaled ==
    (inp.driver = "scf_cycle" /\ pc = "solve") =>
        LET a == ExchangeFraction(inp.xc_method)
            hjk == MatAdd(inp.h_core,
                          MatSub(MatScale(R(2), jk.j), MatScale(a, jk.k[1])))
        IN  IF IsSome(inp.xc_method)
            THEN fock[1] = MatAdd(hjk, build_vxc(grid[p[1]], FALSE,
                                                 Unwrap(inp.xc_method))[2])
            ELSE fock[1] = hjk

\* ---------------------------------------------------------------------
\* Primitives, shells and electron-repulsion integrals
\* ---------------------------------------------------------------------
\* Every primitive of this part sits on one common centre, so that the
\* Gaussian product centre P equals A, exp(..) = 1 and boys0(0) = 1.

\* 2.0 * PI.powf(2.5) = 34.98..., to two digits
TwoPiPow25 == 35

\* Primitive::new(exponent, coefficient, center, ang)
Primitive(exponent, coefficient, ang) ==
    [exponent |-> exponent, coefficient |-> coefficient, ang |-> ang]

\* Shell::new(primitives, ang, center, offset)
Shell(primitives, ang, offset) ==
    [primitives |-> primitives, ang |-> ang, offset |-> offset]

AngSum(ang) == ang[1] + ang[2] + ang[3]

\* Shell::n_orbitals
n_orbitals(sh) == ((AngSum(sh.ang) + 1) * (AngSum(sh.ang) + 2)) \div 2

\* Shell::num_orbitals: the match arms as written, on the shell's total
\* angular momentum l
num_orbitals(sh) ==
    LET l == AngSum(sh.ang)
    IN  CASE l = 0 -> 1
          [] l = 1 -> 3
          [] l = 2 -> 6
          [] l = 3 -> 10
          [] OTHER -> ((l + 1) * (l + 2)) \div 2

\* an inner loop that stops one short: for ly in 0..(l - lx)
cartesian_components_short(sh) ==
    LET l == AngSum(sh.ang)
    IN  Concat([lx1 \in 1..(l + 1) |->
                  [ly1 \in 1..(l - (lx1 - 1)) |->
                      <<lx1 - 1, ly1 - 1, l - (lx1 - 1) - (ly1 - 1)>>]])

\* Shell::cartesian_components: for lx in 0..=l, for ly in 0..=(l - lx),
\* push [lx, ly, l - lx - ly]
cartesian_components(sh) ==
    LET l == AngSum(sh.ang)
    IN  Concat([lx1 \in 1..(l + 1) |->
                  [ly1 \in 1..(l - (lx1 - 1) + 1) |->
                      <<lx1 - 1, ly1 - 1, l - (lx1 - 1) - (ly1 - 1)>>]])

\* a call that returned v, and a call that panicked
Ok(v) == <<"ok", v>>
Panicked(msg) == <<"panic", msg>>
IsOk(r) == r[1] = "ok"

\* the integer square root, by bisection: the largest r with r * r <= n
ISqrtIn[t \in Nat \X Nat \X Nat] ==
    LET n == t[1]
        lo == t[2]
        hi == t[3]
        mid == (lo + hi + 1) \div 2
    IN  IF lo >= hi THEN lo
        ELSE IF mid <= n \div mid THEN ISqrtIn[<<n, mid, hi>>]
        ELSE ISqrtIn[<<n, lo, mid - 1>>]

ISqrt(n) == IF n = 0 THEN 0 ELSE ISqrtIn[<<n, 1, n>>]

\* f64::sqrt at the precision of these numbers: exact on the squares of
\* rationals, numerator and denominator rounded down otherwise
RSqrt(x) == RNorm(ISqrt(x[1]), ISqrt(x[2]))

\* eri_ssss: prefactor * k_ab * k_cd * boys0(t) times the four coefficients,
\* prefactor = 2 pi^2.5 / (zeta * eta * sqrt(zeta + eta))
eri_ssss(a, b, c, d) ==
    LET zeta == RAdd(a.exponent, b.exponent)
        eta == RAdd(c.exponent, d.exponent)
        prefactor == RDiv(R(TwoPiPow25), RMul(RMul(zeta, eta), RSqrt(RAdd(zeta, eta))))
    IN  RMul(RMul(RMul(RMul(prefactor, a.coefficient), b.coefficient),
                  c.coefficient), d.coefficient)

\* P[dir] - A[dir] for primitives on one centre
PMinusA == RZero

\* delta / (2.0 * zeta), zeta = alpha + beta
DeltaOverTwoZeta(a, b, i, j) ==
    IF i = j THEN RDiv(ROne, RMul(R(2), RAdd(a.exponent, b.exponent)))
    ELSE RZero

eri_psss(a, b, c, d, dir) == RMul(PMinusA, eri_ssss(a, b, c, d))

eri_ppss(a, b, c, d, i, j) ==
    RAdd(RMul(PMinusA, eri_psss(a, b, c, d, j)),
         RMul(DeltaOverTwoZeta(a, b, i, j), eri_ssss(a, b, c, d)))

eri_dsss(a, b, c, d, i, j) ==
    RAdd(RMul(PMinusA, eri_psss(a, b, c, d, j)),
         RMul(DeltaOverTwoZeta(a, b, i, j), eri_psss(a, b, c, d, i)))

eri_fsss(a, b, c, d, i, j, k) ==
    RAdd(RMul(PMinusA, eri_dsss(a, b, c, d, j, k)),
         RMul(DeltaOverTwoZeta(a, b, j, k), eri_psss(a, b, c, d, j)))

\* cartesian_pair / cartesian_triplet: axis i repeated ang[i] times (0-based axes)
CartesianAxes(ang) ==
    Tup([n \in 1..ang[1] |-> 0]) \o Tup([n \in 1..ang[2] |-> 1])
        \o Tup([n \in 1..ang[3] |-> 2])

\* the largest lsum the match has an arm for
MaxAngular == 4

\* eri_primitive_dispatch: the match on lsum of the first primitive
eri_primitive_dispatch(a, b, c, d) ==
    LET lsum == AngSum(a.ang)
        v == CartesianAxes(a.ang)
    IN  CASE lsum = 0 -> Ok(eri_ssss(a, b, c, d))
          [] lsum = 1 -> Ok(eri_psss(a, b, c, d, v[1]))
          [] lsum = 2 -> Ok(eri_ppss(a, b, c, d, v[1], v[2]))
          [] lsum = 3 -> Ok(eri_dsss(a, b, c, d, v[1], v[2]))
          [] lsum = MaxAngular -> Ok(eri_fsss(a, b, c, d, v[1], v[2], v[3]))
          [] OTHER -> Panicked("Angular momentum > f not supported")

\* eri_ao_ao / eri_contracted: the sum of the dispatch over all primitive
\* quartets; the first panic ends the call
eri_ao_ao(ao_a, ao_b, ao_c, ao_d) ==
    LET val(i, j, k, l) == eri_primitive_dispatch(ao_a[i], ao_b[j], ao_c[k], ao_d[l])
        quartets == { <<i, j, k, l>> : i \in 1..Len(ao_a), j \in 1..Len(ao_b),
                                      k \in 1..Len(ao_c), l \in 1..Len(ao_d) }
    IN  IF \E t \in quartets : ~IsOk(val(t[1], t[2], t[3], t[4]))
        THEN Panicked("Angular momentum > f not supported")
        ELSE Ok(RSum([i \in 1..Len(ao_a) |-> RSum([j \in 1..Len(ao_b) |->
                RSum([k \in 1..Len(ao_c) |-> RSum([l \in 1..Len(ao_d) |->
                    val(i, j, k, l)[2]])])])]))

RMax(x, y) == IF RLt(x, y) THEN y ELSE x

\* Contracted::new(shell.primitives.clone())
Contracted(sh) == sh.primitives

\* eri_shell::eri_shell_shell: the na x nb matrix whose every entry is
\* eri_contracted(ca, cb, ca, cb)
eri_shell_shell(shell_a, shell_b) ==
    LetIn(eri_ao_ao(Contracted(shell_a), Contracted(shell_b),
                    Contracted(shell_a), Contracted(shell_b)),
          LAMBDA v :
            IF IsOk(v)
            THEN Ok(Tup([i \in 1..n_orbitals(shell_a) |->
                        Tup([j \in 1..n_orbitals(shell_b) |-> v[2]])]))
            ELSE v)

\* the largest |entry| of a matrix, starting from 0.0
MaxAbs(m) ==
    LetIn({RZero} \cup { RAbs(m[i][j]) : i \in 1..Len(m), j \in 1..Len(m[1]) },
          LAMBDA vals : CHOOSE x \in vals : \A y \in vals : RMax(x, y) = x)

\* (x * y).sqrt() for x, y >= 0; the root of a square is read off directly
SqrtOfProduct(x, y) == IF x = y THEN x ELSE RSqrt(RMul(x, y))

\* schwarz_shell_pair: sqrt(max|(aa|aa)| * max|(bb|bb)|)
schwarz_shell_pair(shell_a, shell_b) ==
    LetIn(eri_shell_shell(shell_a, shell_a), LAMBDA eri_aa :
    LetIn(eri_shell_shell(shell_b, shell_b), LAMBDA eri_bb :
        IF ~IsOk(eri_aa) THEN eri_aa
        ELSE IF ~IsOk(eri_bb) THEN eri_bb
        ELSE Ok(SqrtOfProduct(MaxAbs(eri_aa[2]), MaxAbs(eri_bb[2])))))

\* bound_ab * bound_cd < cutoff, cutoff = 1e-12 = (1 / TolRoot)^2, for
\* non-negative bounds: each bound is first measured in units of 1 / TolRoot,
\* and the product is formed only when one factor is below 1 and the other
\* is not
BelowCutoff(bound_ab, bound_cd) ==
    LET u == RMul(bound_ab, R(TolRoot))
        v == RMul(bound_cd, R(TolRoot))
    IN  IF RLt(u, ROne) /\ RLt(v, ROne) THEN TRUE
        ELSE IF ~RLt(u, ROne) /\ ~RLt(v, ROne) THEN FALSE
        ELSE RLt(RMul(u, v), ROne)

\* ((i * nb + j) * nc + k) * nd + l for 0-based i, j, k, l, as a 1-based position
BlockIdx(i, j, k, l, nb, nc, nd) == ((i * nb + j) * nc + k) * nd + l + 1

\* a block builder without the screening test
eri_shell_quartet_unscreened(shell_a, shell_b, shell_c, shell_d) ==
    LetIn(eri_ao_ao(Contracted(shell_a), Contracted(shell_b),
                    Contracted(shell_c), Contracted(shell_d)), LAMBDA v :
        IF ~IsOk(v) THEN v
        ELSE Ok(Tup([n \in 1..(n_orbitals(shell_a) * n_orbitals(shell_b)
                                 * n_orbitals(shell_c) * n_orbitals(shell_d)) |-> v[2]])))

\* eri_shell_shell_shell_shell: the flattened block of a shell quartet,
\* all zero when the quartet is screened out
eri_shell_shell_shell_shell(shell_a, shell_b, shell_c, shell_d) ==
    LetIn(n_orbitals(shell_a) * n_orbitals(shell_b)
              * n_orbitals(shell_c) * n_orbitals(shell_d), LAMBDA len :
    LetIn(schwarz_shell_pair(shell_a, shell_b), LAMBDA bound_ab :
    LetIn(schwarz_shell_pair(shell_c, shell_d), LAMBDA bound_cd :
    LetIn(eri_ao_ao(Contracted(shell_a), Contracted(shell_b),
                    Contracted(shell_c), Contracted(shell_d)), LAMBDA v :
        IF ~IsOk(bound_ab) THEN bound_ab
        ELSE IF ~IsOk(bound_cd) THEN bound_cd
        ELSE IF BelowCutoff(bound_ab[2], bound_cd[2]) THEN Ok(ZeroVec(len))
        ELSE IF ~IsOk(v) THEN v
        ELSE Ok(Tup([n \in 1..len |-> v[2]]))))))

\* ---------------------------------------------------------------------
\* One-electron primitive integrals
\* ---------------------------------------------------------------------

\* (PI / zeta)^1.5 * a.norm() * b.norm() for two primitives of exponent 1:
\* norm = (2 / PI)^0.75 * sqrt(4^l), so the product is 2^(la + lb)
NormFactor(a, b) == R(2 ^ (AngSum(a.ang) + AngSum(b.ang)))

\* overlap_ss: prefactor * k_ab * a.norm() * b.norm(), k_ab = 1 on one centre
overlap_ss(a, b) == NormFactor(a, b)

overlap_primitive(a, b) ==
    IF a.ang = <<0, 0, 0>> /\ b.ang = <<0, 0, 0>>
    THEN Ok(overlap_ss(a, b))
    ELSE Panicked("overlap_primitive: angular momentum > 0 not yet implemented")

\* kinetic_ss: reduced * (3 - 2 * reduced * rab2) * (PI / zeta)^1.5 * kab
\* * a.norm() * b.norm(), rab2 = 0 and kab = 1 on one centre
kinetic_ss(a, b) ==
    LET zeta == RAdd(a.exponent, b.exponent)
        reduced == RDiv(RMul(a.exponent, b.exponent), zeta)
    IN  RMul(RMul(reduced, R(3)), NormFactor(a, b))

kinetic_primitive(a, b) ==
    IF a.ang = <<0, 0, 0>> /\ b.ang = <<0, 0, 0>>
    THEN Ok(kinetic_ss(a, b))
    ELSE Panicked("kinetic_primitive: angular momentum > 0 not implemented yet")

\* 2 * PI * (2 / PI)^1.5 = 3.19..., to two digits
TwoPiNorm == <<16, 5>>

\* Atom { atomic_number, position } on the common centre
Atom(atomic_number) == [atomic_number |-> atomic_number]

\* nuclear_attraction_primitive: pref * kab * boys0(t) * a.norm() * b.norm(),
\* pref = -2 PI z / zeta, kab = 1 and boys0(0) = 1 on one centre
nuclear_attraction_primitive(a, b, atom) ==
    LET zeta == RAdd(a.exponent, b.exponent)
        z == R(atom.atomic_number)
    IN  Ok(RNeg(RMul(RMul(RDiv(z, zeta), TwoPiNorm), NormFactor(a, b))))

\* ---------------------------------------------------------------------
\* build_jk over shells
\* ---------------------------------------------------------------------

\* a shell list whose offsets advance by one per shell
shell_offsets_by_one(shells) == Tup([i \in 1..Len(shells) |-> i - 1])

\* shell_offsets: offset of a shell = orbitals of all shells before it
shell_offsets(shells) ==
    LET RECURSIVE Before(_)
        Before(i) == IF i = 1 THEN 0 ELSE Before(i - 1) + n_orbitals(shells[i - 1])
    IN  Tup([i \in 1..Len(shells) |-> Before(i)])

\* the shell quartets in loop order: a outermost, d innermost
ShellQuartets(n) ==
    Tup([t \in 1..(n * n * n * n) |->
        <<((t - 1) \div (n * n * n)) + 1, (((t - 1) \div (n * n)) % n) + 1,
          (((t - 1) \div n) % n) + 1, ((t - 1) % n) + 1>>])

\* what one shell quartet adds to j[mu][nu]: density[lam][sig] * eri summed
\* over the quartet's lam, sig when mu, nu lie in its first two shells
JOfQuartet(shells, off, density, q, blk, mu, nu) ==
    LET na == n_orbitals(shells[q[1]])
        nb == n_orbitals(shells[q[2]])
        nc == n_orbitals(shells[q[3]])
        nd == n_orbitals(shells[q[4]])
        oa == off[q[1]]
        ob == off[q[2]]
        oc == off[q[3]]
        od == off[q[4]]
    IN  IF mu - 1 - oa \in 0..(na - 1) /\ nu - 1 - ob \in 0..(nb - 1)
        THEN RSum(Tup([ic \in 1..nc |-> RSum(Tup([id \in 1..nd |->
                 RMul(density[oc + ic][od + id],
                      blk[BlockIdx(mu - 1 - oa, nu - 1 - ob, ic - 1, id - 1,
                                   nb, nc, nd)])]))]))
        ELSE RZero

\* what one shell quartet adds to k[mu][lam]: density[nu][sig] * eri summed
\* over the quartet's nu, sig when mu, lam lie in its first and third shell
KOfQuartet(shells, off, density, q, blk, mu, lam) ==
    LET na == n_orbitals(shells[q[1]])
        nb == n_orbitals(shells[q[2]])
        nc == n_orbitals(shells[q[3]])
        nd == n_orbitals(shells[q[4]])
        oa == off[q[1]]
        ob == off[q[2]]
        oc == off[q[3]]
        od == off[q[4]]
    IN  IF mu - 1 - oa \in 0..(na - 1) /\ lam - 1 - oc \in 0..(nc - 1)
        THEN RSum(Tup([ib \in 1..nb |-> RSum(Tup([id \in 1..nd |->
                 RMul(density[ob + ib][od + id],
                      blk[BlockIdx(mu - 1 - oa, ib - 1, lam - 1 - oc, id - 1,
                                   nb, nc, nd)])]))]))
        ELSE RZero

\* J and K accumulated over all shell quartets, given the quartets' blocks
JkOfBlocks(shells, off, density, quartets, blocks) ==
    LET n == Len(density)
    IN  <<Tup([mu \in 1..n |-> Tup([nu \in 1..n |->
              RSum(Tup([t \in 1..Len(quartets) |->
                  JOfQuartet(shells, off, density, quartets[t], blocks[t][2], mu, nu)]))])]),
          Tup([mu \in 1..n |-> Tup([lam \in 1..n |->
              RSum(Tup([t \in 1..Len(quartets) |->
                  KOfQuartet(shells, off, density, quartets[t], blocks[t][2], mu, lam)]))])])>>

\* build_jk: the block of every shell quartet, then J and K
build_jk(shells, density) ==
    LetIn(ShellQuartets(Len(shells)), LAMBDA quartets :
    LetIn(shell_offsets(shells), LAMBDA off :
    LetIn(Tup([t \in 1..Len(quartets) |->
                  eri_shell_shell_shell_shell(shells[quartets[t][1]],
                      shells[quartets[t][2]], shells[quartets[t][3]],
                      shells[quartets[t][4]])]), LAMBDA blocks :
        IF \E t \in 1..Len(quartets) : ~IsOk(blocks[t])
        THEN Panicked("Angular momentum > f not supported")
        ELSE Ok(JkOfBlocks(shells, off, density, quartets, blocks)))))

\* ---------------------------------------------------------------------
\* Library functions called on their own
\* ---------------------------------------------------------------------

\* two s shells of one primitive (exponent 1, coefficient 1 and exponent 3,
\* coefficient 2), a p shell (three Cartesian components) and a d shell (six)
ShellS1 == Shell(<<Primitive(ROne, ROne, <<0, 0, 0>>)>>, <<0, 0, 0>>, 0)
ShellS2 == Shell(<<Primitive(R(3), R(2), <<0, 0, 0>>)>>, <<0, 0, 0>>, 0)
ShellD == Shell(<<Primitive(ROne, ROne, <<2, 0, 0>>)>>, <<2, 0, 0>>, 0)

ShellP == Shell(<<Primitive(ROne, ROne, <<1, 0, 0>>)>>, <<1, 0, 0>>, 0)

JkShellLists ==
    { <<a>> : a \in {ShellS1, ShellS2, ShellP} }
        \cup { <<a, b>> : a, b \in {ShellS1, ShellS2, ShellP} }
        \cup { <<ShellD, ShellS2>> }

\* nao = sum of n_orbitals() over the shells
NaoOf(shells) ==
    LET RECURSIVE Upto(_)
        Upto(i) == IF i = 0 THEN 0 ELSE Upto(i - 1) + n_orbitals(shells[i])
    IN  Upto(Len(shells))

\* density matrices of dimension n: a non-symmetric one and the identity
JkDensities(n) ==
    { Tup([i \in 1..n |-> Tup([j \in 1..n |-> R(i + 2 * j)])]),
      Tup([i \in 1..n |-> Tup([j \in 1..n |-> IF i = j THEN ROne ELSE RZero])]) }

CallBuildJk ==
    /\ call = NoCall
    /\ \E shells \in JkShellLists :
         \E density \in JkDensities(NaoOf(shells)) :
            /\ call' = [fn |-> "build_jk", shells |-> shells, density |-> density]
            /\ ret' = build_jk(shells, density)
    /\ UNCHANGED <<diisVars, scfVars, xcVars, geo>>

\* s shells of exponent 1 with coefficient 1/2 and 1/50
ShellHalf == Shell(<<Primitive(ROne, <<1, 2>>, <<0, 0, 0>>)>>, <<0, 0, 0>>, 0)
ShellTiny == Shell(<<Primitive(ROne, <<1, 50>>, <<0, 0, 0>>)>>, <<0, 0, 0>>, 0)

ScreenShells == {ShellS1, ShellHalf, ShellTiny, ShellP, ShellD}

CallEriShellQuartet ==
    /\ call = NoCall
    /\ \E a, b, c, d \in ScreenShells :
         /\ call' = [fn |-> "eri_shell_shell_shell_shell",
                     shell_a |-> a, shell_b |-> b, shell_c |-> c, shell_d |-> d]
         /\ ret' = eri_shell_shell_shell_shell(a, b, c, d)
    /\ UNCHANGED <<diisVars, scfVars, xcVars, geo>>

\* primitives of exponent 1 and coefficient 1 with l = 0, 1, 4 and 5
DispatchPrimitives ==
    { Primitive(ROne, ROne, ang) :
        ang \in {<<0, 0, 0>>, <<0, 1, 0>>, <<2, 2, 0>>, <<5, 0, 0>>} }

CallEriAoAo ==
    /\ call = NoCall
    /\ \E a, b, c, d \in DispatchPrimitives :
         /\ call' = [fn |-> "eri_ao_ao",
                     ao_a |-> <<a>>, ao_b |-> <<b>>, ao_c |-> <<c>>, ao_d |-> <<d>>]
         /\ ret' = eri_ao_ao(<<a>>, <<b>>, <<c>>, <<d>>)
    /\ UNCHANGED <<diisVars, scfVars, xcVars, geo>>

\* primitives of exponent 1 and coefficient 1 with l = 0, 1 and 2
OneElectronPrimitives ==
    { Primitive(ROne, ROne, ang) : ang \in {<<0, 0, 0>>, <<1, 0, 0>>, <<0, 1, 1>>} }

CallOverlapPrimitive ==
    /\ call = NoCall
    /\ \E a, b \in OneElectronPrimitives :
         /\ call' = [fn |-> "overlap_primitive", a |-> a, b |-> b]
         /\ ret' = overlap_primitive(a, b)
    /\ UNCHANGED <<diisVars, scfVars, xcVars, geo>>

CallKineticPrimitive ==
    /\ call = NoCall
    /\ \E a, b \in OneElectronPrimitives :
         /\ call' = [fn |-> "kinetic_primitive", a |-> a, b |-> b]
         /\ ret' = kinetic_primitive(a, b)
    /\ UNCHANGED <<diisVars, scfVars, xcVars, geo>>

CallNuclearAttractionPrimitive ==
    /\ call = NoCall
    /\ \E a, b \in OneElectronPrimitives, atom \in {Atom(1), Atom(8)} :
         /\ call' = [fn |-> "nuclear_attraction_primitive",
                     a |-> a, b |-> b, atom |-> atom]
         /\ ret' = nuclear_attraction_primitive(a, b, atom)
    /\ UNCHANGED <<diisVars, scfVars, xcVars, geo>>

\* ---------------------------------------------------------------------
\* solve_roothaan on diagonal matrices, with the f64 values that are not
\* finite: a zero denominator marks them
\* ---------------------------------------------------------------------

Inf == <<1, 0>>
NegInf == <<-1, 0>>
NaN == <<0, 0>>
is_finite(x) == x[2] # 0
FSign(x) == IF x[1] > 0 THEN 1 ELSE IF x[1] < 0 THEN -1 ELSE 0

\* x * y
FMul(x, y) ==
    IF is_finite(x) /\ is_finite(y) THEN RMul(x, y)
    ELSE IF FSign(x) = 0 \/ FSign(y) = 0 THEN NaN
    ELSE <<FSign(x) * FSign(y), 0>>

\* x + y
FAdd(x, y) ==
    IF is_finite(x) /\ is_finite(y) THEN RAdd(x, y)
    ELSE IF x = NaN \/ y = NaN THEN NaN
    ELSE IF is_finite(x) THEN y
    ELSE IF is_finite(y) \/ x = y THEN x
    ELSE NaN

\* x.sqrt()
FSqrt(x) ==
    IF x = Inf THEN Inf
    ELSE IF FSign(x) < 0 \/ x = NaN THEN NaN
    ELSE RSqrt(x)

\* 1.0 / x
FRecip(x) ==
    IF x = NaN THEN NaN
    ELSE IF ~is_finite(x) THEN RZero
    ELSE IF x = RZero THEN Inf
    ELSE RDiv(ROne, x)

RECURSIVE FSum(_)
FSum(s) == IF s = <<>> THEN RZero ELSE FAdd(Head(s), FSum(Tail(s)))

FMatMul(a, b) ==
    Tup([i \in 1..Len(a) |-> Tup([j \in 1..Len(b[1]) |->
        FSum([k \in 1..Len(b) |-> FMul(a[i][k], b[k][j])])])])

transpose(a) ==
    Tup([i \in 1..Len(a[1]) |-> Tup([j \in 1..Len(a) |-> a[j][i]])])

MatFinite(m) == \A i \in 1..Len(m) : \A j \in 1..Len(m[i]) : is_finite(m[i][j])

\* SymmetricEigen::new of a diagonal matrix: the eigenvectors are the unit
\* vectors in either order, the eigenvalues the diagonal entries in that
\* order; on a matrix that is not finite the decomposition may also come
\* back all NaN
EigenOrder(m, v) ==
    [eigenvalues |-> Tup([i \in 1..Len(m) |->
                        FMatMul(FMatMul(transpose(v), m), v)[i][i]]),
     eigenvectors |-> v]

SymmetricEigen(m) ==
    { EigenOrder(m, v) : v \in CoeffVals }
    \cup (IF MatFinite(m) THEN {}
          ELSE { [eigenvalues |-> Tup([i \in 1..Len(m) |-> NaN]),
                  eigenvectors |-> Tup([i \in 1..Len(m) |->
                                        Tup([j \in 1..Len(m) |-> NaN])])] })

\* s_inv_sqrt[(i, i)] = 1.0 / s_eig.eigenvalues[i].sqrt()
SInvSqrt(s_eig) ==
    Tup([i \in 1..Len(s_eig.eigenvalues) |-> Tup([j \in 1..Len(s_eig.eigenvalues) |->
        IF i = j THEN FRecip(FSqrt(s_eig.eigenvalues[i])) ELSE RZero])])

\* solve_roothaan: every (c, eps) the call may return
solve_roothaan(fock_mat, overlap) ==
    UNION { LET x == FMatMul(FMatMul(s_eig.eigenvectors, SInvSqrt(s_eig)),
                             transpose(s_eig.eigenvectors))
                f_prime == FMatMul(FMatMul(transpose(x), fock_mat), x)
            IN  { Ok([c |-> FMatMul(x, e.eigenvectors), eps |-> e.eigenvalues]) :
                    e \in SymmetricEigen(f_prime) } :
            s_eig \in SymmetricEigen(overlap) }

\* diagonal Fock matrices
RoothaanFocks == { IntMat(<<<<0, 0>>, <<0, 1>>>>), IntMat(<<<<-1, 0>>, <<0, 0>>>>) }

\* diagonal overlap matrices: two positive definite ones, one with a zero
\* and one with a negative eigenvalue
RoothaanOverlaps == { Overlap, IntMat(<<<<4, 0>>, <<0, 1>>>>),
                      IntMat(<<<<1, 0>>, <<0, 0>>>>), IntMat(<<<<1, 0>>, <<0, -1>>>>) }

CallSolveRoothaan ==
    /\ call = NoCall
    /\ \E f \in RoothaanFocks, s \in RoothaanOverlaps :
         \E r \in solve_roothaan(f, s) :
            /\ call' = [fn |-> "solve_roothaan", fock |-> f, overlap |-> s]
            /\ ret' = r
    /\ UNCHANGED <<diisVars, scfVars, xcVars, geo>>

\* ---------------------------------------------------------------------
\* load_basis
\* ---------------------------------------------------------------------

\* atom.symbol, as read_xyz pairs it with the atomic number
symbol(atom) ==
    CASE atom.atomic_number = 1 -> "H"
      [] atom.atomic_number = 8 -> "O"
      [] OTHER -> "?"

BasisShell(angular_momentum, primitives) ==
    [angular_momentum |-> angular_momentum, primitives |-> primitives]

Decimal8(n) == RDiv(R(n), R(100000000))

sto3g_hydrogen ==
    [shells |-> << BasisShell(<<0, 0, 0>>,
                      << <<Decimal8(342525091), Decimal8(15432897)>>,
                         <<Decimal8(62391373), Decimal8(53532814)>>,
                         <<Decimal8(16885540), Decimal8(44463454)>> >>) >>]

read_basis_set(basis_name, element) ==
    IF basis_name = "sto-3g" /\ element = "H" THEN Some(sto3g_hydrogen) ELSE None

\* the body of the loop over basis.shells, for the shells of one atom:
\* the shells pushed so far and ao_offset go in, and come out
RECURSIVE ShellsOfAtom(_, _, _)
ShellsOfAtom(bshells, shells, ao_offset) ==
    IF bshells = <<>> THEN [shells |-> shells, ao_offset |-> ao_offset]
    ELSE LET bshell == Head(bshells)
             ang == bshell.angular_momentum
             primitives == Tup([i \in 1..Len(bshell.primitives) |->
                               Primitive(bshell.primitives[i][1],
                                         bshell.primitives[i][2], ang)])
             shell == Shell(primitives, ang, ao_offset)
         IN  ShellsOfAtom(Tail(bshells), Append(shells, shell),
                          ao_offset + n_orbitals(shell))

\* the loop over molecule.atoms
RECURSIVE LoadAtoms(_, _, _, _)
LoadAtoms(atoms, basis_name, shells, ao_offset) ==
    IF atoms = <<>> THEN Ok(shells)
    ELSE LET basis == read_basis_set(basis_name, symbol(Head(atoms)))
         IN  IF ~IsSome(basis) THEN Panicked("Basis not found for element")
             ELSE LET s == ShellsOfAtom(Unwrap(basis).shells, shells, ao_offset)
                  IN  LoadAtoms(Tail(atoms), basis_name, s.shells, s.ao_offset)

\* a loader whose first offset is one
load_basis_from_one(molecule, basis_name) ==
    LoadAtoms(molecule.atoms, basis_name, <<>>, 1)

\* a loader that leaves every shell at offset 0
load_basis_unplaced(molecule, basis_name) ==
    LetIn(LoadAtoms(molecule.atoms, basis_name, <<>>, 0), LAMBDA r :
        IF IsOk(r)
        THEN Ok(Tup([i \in 1..Len(r[2]) |-> [r[2][i] EXCEPT !.offset = 0]]))
        ELSE r)

\* load_basis: shells = Vec::new(), ao_offset = 0, then the loops
load_basis(molecule, basis_name) ==
    LoadAtoms(molecule.atoms, basis_name, <<>>, 0)

\* molecules of up to MaxAtoms atoms of hydrogen and oxygen
MaxAtoms == 3
BasisMolecules ==
    { [atoms |-> a, charge |-> 0, multiplicity |-> 1] :
        a \in UNION { [1..n -> {Atom(1), Atom(8)}] : n \in 0..MaxAtoms } }

BasisNames == {"sto-3g", "6-31g"}

CallLoadBasis ==
    /\ call = NoCall
    /\ \E molecule \in BasisMolecules, basis_name \in BasisNames :
         /\ call' = [fn |-> "load_basis", molecule |-> molecule,
                     basis_name |-> basis_name]
         /\ ret' = load_basis(molecule, basis_name)
    /\ UNCHANGED <<diisVars, scfVars, xcVars, geo>>

\* ---------------------------------------------------------------------
\* The functional-backend handles of build_vxc and build_vxc_udft
\* ---------------------------------------------------------------------

\* the exchange and correlation functional ids of LibXC::new
FuncIds(xc_base) ==
    CASE xc_base = LDA -> <<1, 7>>
      [] xc_base = GGA -> <<101, 130>>
      [] xc_base = MetaGGA -> <<263, 267>>

\* LibXC::new, when xc_func_init returned 0
LibXC(func_id, spin) ==
    [func_id |-> func_id, spin |-> spin, evals |-> 0, ends |-> 0,
     used_after_end |-> FALSE]

\* fx.eval_all / fc.eval_all_spin: the backend is handed self.func
eval_all(handle) ==
    [handle EXCEPT !.evals = @ + 1, !.used_after_end = @ \/ handle.ends > 0]

\* a destructor that leaves the handle with the backend
drop_forgets(handle) == handle

\* Drop for LibXC: xc_func_end(self.func)
drop(handle) == [handle EXCEPT !.ends = @ + 1]

\* grid points per call, each with a density above or below the 1e-12 floor
MaxPoints == 2
GridPointLists == UNION { [1..n -> BOOLEAN] : n \in 0..MaxPoints }

VxcMethods == { LDA, GGA, MetaGGA, HybridOf(GGA, "PBE0"),
                HybridOf(HybridOf(LDA, "B3LYP"), "PBE0") }

IsUdft == call.fn = "build_vxc_udft"
IsMeta == XcBase(call.method) = MetaGGA

\* the function is entered and xc_base is matched
CallBuildVxc ==
    /\ call = NoCall
    /\ \E fn \in {"build_vxc", "build_vxc_udft"}, method \in VxcMethods,
          has_coeff \in BOOLEAN, points \in GridPointLists :
         /\ call' = [fn |-> fn, method |-> method, has_coeff |-> has_coeff,
                     points |-> points]
         /\ frame' = IF XcBase(method) \in {LDA, GGA, MetaGGA}
                  THEN [frame EXCEPT !.pc = "new_fx"]
                  ELSE [frame EXCEPT !.pc = "unwind", !.msg = "unreachable"]
    /\ UNCHANGED <<diisVars, scfVars, ret, backend, geo>>

\* LibXC::new for fx, then for fc: xc_func_init succeeds or the call panics
NewLibXC ==
    /\ frame.pc \in {"new_fx", "new_fc"}
    /\ \E init_ok \in BOOLEAN :
         IF init_ok
         THEN /\ backend' = Append(backend,
                    LibXC(FuncIds(XcBase(call.method))[Len(frame.owned) + 1], IsUdft))
              /\ frame' = [frame EXCEPT !.owned = Append(@, Len(backend) + 1),
                                  !.pc = IF frame.pc = "new_fx" THEN "new_fc" ELSE "grid"]
         ELSE /\ frame' = [frame EXCEPT !.pc = "unwind", !.msg = "libxc init failed"]
              /\ UNCHANGED backend
    /\ UNCHANGED <<diisVars, scfVars, call, ret, geo>>

\* a floor test that lets every density through: rho < 0.0
BelowFloorNegative(points, n) == FALSE

\* if dp.rho < 1e-12 (dp.rho_a + dp.rho_b < 1e-12 in build_vxc_udft)
BelowFloor(points, n) == ~points[n]

\* one pass of the loop over grid.points; exc, int_rho_vxc and vxc are kept
\* as the list of grid points whose term has been added to them
GridPointStep ==
    /\ frame.pc = "grid"
    /\ frame.point < Len(call.points)
    /\ IF BelowFloor(call.points, frame.point + 1)
       THEN \* the density is below the floor: continue
            /\ frame' = [frame EXCEPT !.point = @ + 1]
            /\ UNCHANGED backend
       ELSE IF IsMeta /\ ~call.has_coeff
       THEN \* coeff.expect(..) / coeff_a.unwrap() on None
            /\ frame' = [frame EXCEPT !.pc = "unwind",
                                !.msg = IF IsUdft THEN "unwrap on None"
                                        ELSE "meta-GGA requires coeff"]
            /\ UNCHANGED backend
       ELSE /\ backend' = [backend EXCEPT ![frame.owned[1]] = eval_all(@),
                                          ![frame.owned[2]] = eval_all(@)]
            /\ frame' = [frame EXCEPT !.point = @ + 1,
                                !.exc = Append(@, frame.point + 1),
                                !.int_rho_vxc = Append(@, frame.point + 1),
                                !.vxc = Append(@, frame.point + 1)]
    /\ UNCHANGED <<diisVars, scfVars, call, ret, geo>>

\* the loop is over and the result tuple is built
ReturnStep ==
    /\ frame.pc = "grid"
    /\ frame.point = Len(call.points)
    /\ frame' = [frame EXCEPT !.pc = "return"]
    /\ UNCHANGED <<diisVars, scfVars, call, ret, backend, geo>>

\* leaving the scope, by return or by unwinding: the LibXC values the frame
\* owns are dropped, the last one built first
DropStep ==
    /\ frame.pc \in {"return", "unwind"}
    /\ frame.owned # <<>>
    /\ backend' = [backend EXCEPT ![frame.owned[Len(frame.owned)]] = drop(@)]
    /\ frame' = [frame EXCEPT !.owned = SubSeq(@, 1, Len(@) - 1)]
    /\ UNCHANGED <<diisVars, scfVars, call, ret, geo>>

\* the call is over: a value for the caller, or the panic goes on upwards
ExitStep ==
    /\ frame.pc \in {"return", "unwind"}
    /\ frame.owned = <<>>
    /\ ret' = IF frame.pc = "return" THEN Ok(call.fn) ELSE Panicked(frame.msg)
    /\ frame' = [frame EXCEPT !.pc = "done"]
    /\ UNCHANGED <<diisVars, scfVars, call, backend, geo>>

RECURSIVE SumInt(_)
SumInt(ns) == IF ns = <<>> THEN 0 ELSE Head(ns) + SumInt(Tail(ns))

\* the kernel whose block for shell pair (i, j) is the part of g at rows
\* off_i.. and columns off_j..
BlocksOf(sizes, g) ==
    LET off == [i \in 1..Len(sizes) |-> SumInt([k \in 1..(i - 1) |-> sizes[k]])]
    IN  [ij \in (1..Len(sizes)) \X (1..Len(sizes)) |->
            Tup([a \in 1..sizes[ij[1]] |-> Tup([b \in 1..sizes[ij[2]] |->
                g[<<off[ij[1]] + a, off[ij[2]] + b>>]])])]

\* the running sum of the shells' orbital counts: the offsets build_matrix
\* computes for itself
BlockOffsets(sizes) ==
    Tup([i \in 1..Len(sizes) |-> SumInt([k \in 1..(i - 1) |-> sizes[k]])])

\* the writes of the i, j, a, b loops: element (r, c) of the global matrix is
\* element (r - off_i, c - off_j) of the block of the shell pair it lies in,
\* and 0.0 where no block is written
WriteBlocks(sizes, offsets, nao, kernel) ==
    Tup([r \in 1..nao |-> Tup([c \in 1..nao |->
        LET hit == { ij \in (1..Len(sizes)) \X (1..Len(sizes)) :
                       /\ r - 1 - offsets[ij[1]] \in 0..(sizes[ij[1]] - 1)
                       /\ c - 1 - offsets[ij[2]] \in 0..(sizes[ij[2]] - 1) }
        IN  IF hit = {} THEN RZero
            ELSE LET ij == CHOOSE x \in hit : TRUE
                 IN  kernel[ij][r - offsets[ij[1]]][c - offsets[ij[2]]]])])

\* guess.rs build_matrix: blocks are copied into the matrix and it is returned
build_matrix(sizes, kernel) ==
    WriteBlocks(sizes, BlockOffsets(sizes), SumInt(sizes), kernel)

\* utils.rs build_one_electron_matrix: blocks t + v are copied at the shells'
\* stored offsets, then every pair (i, j), (j, i) is replaced by its average
build_one_electron_matrix(sizes, offsets, kernel) ==
    LET nao == offsets[Len(sizes)] + sizes[Len(sizes)]
        h == WriteBlocks(sizes, offsets, nao, kernel)
    IN  Tup([i \in 1..nao |-> Tup([j \in 1..nao |->
            IF i = j THEN h[i][j] ELSE RMul(Half, RAdd(h[i][j], h[j][i]))])])

\* shells of two AOs in all: two s-like shells, or one shell of two orbitals
BlockSizes == { <<1, 1>>, <<2>> }

BlockVals == { RZero, ROne }

\* the blocks a kernel returns for every shell pair: any values
KernelBlocks(sizes) ==
    { BlocksOf(sizes, g) :
        g \in [(1..SumInt(sizes)) \X (1..SumInt(sizes)) -> BlockVals] }

CallBuildMatrix ==
    /\ call = NoCall
    /\ \E sizes \in BlockSizes : \E kernel \in KernelBlocks(sizes) :
         /\ call' = [fn |-> "build_matrix", sizes |-> sizes, kernel |-> kernel]
         /\ ret' = Ok(build_matrix(sizes, kernel))
    /\ UNCHANGED <<diisVars, scfVars, xcVars, geo>>

CallBuildOneElectronMatrix ==
    /\ call = NoCall
    /\ \E sizes \in BlockSizes : \E kernel \in KernelBlocks(sizes) :
         /\ call' = [fn |-> "build_one_electron_matrix", sizes |-> sizes,
                     kernel |-> kernel]
         /\ ret' = Ok(build_one_electron_matrix(sizes, BlockOffsets(sizes), kernel))
    /\ UNCHANGED <<diisVars, scfVars, xcVars, geo>>

MaxAngComp == 2    \* each of lx, ly, lz of a shell is 0..MaxAngComp

AngTriples == (0..MaxAngComp) \X (0..MaxAngComp) \X (0..MaxAngComp)

\* cartesian_components, n_orbitals and num_orbitals of one shell
CallCartesianComponents ==
    /\ call = NoCall
    /\ \E ang \in AngTriples :
         LET sh == Shell(<<Primitive(ROne, ROne, ang)>>, ang, 0)
         IN  /\ call' = [fn |-> "cartesian_components", shell |-> sh]
             /\ ret' = Ok([comps |-> cartesian_components(sh),
                           again |-> cartesian_components(sh),
                           n_orbitals |-> n_orbitals(sh),
                           num_orbitals |-> num_orbitals(sh)])
    /\ UNCHANGED <<diisVars, scfVars, xcVars, geo>>

LibNext ==
    \/ CallCartesianComponents
    \/ CallBuildMatrix
    \/ CallBuildOneElectronMatrix
    \/ CallBuildJk
    \/ CallEriShellQuartet
    \/ CallEriAoAo
    \/ CallOverlapPrimitive
    \/ CallKineticPrimitive
    \/ CallNuclearAttractionPrimitive
    \/ CallSolveRoothaan
    \/ CallLoadBasis
    \/ CallBuildVxc
    \/ NewLibXC
    \/ GridPointStep
    \/ ReturnStep
    \/ DropStep
    \/ ExitStep

\* no driver runs and the Diis object is left as created
LibInit ==
    /\ dq = DiisNew(0) /\ hist = <<>> /\ ext = None /\ lastOp = "new"
    /\ ScfObjInit
    /\ inp.driver = "scf_cycle" /\ inp.max_iter = 0
    /\ inp.conv_tol = R(3) /\ inp.xc_method = None
    /\ inp.h_core = IntMat(<<<<-1, 1>>, <<1, -1>>>>)
    /\ LibIdle

SpecLib == LibInit /\ [][LibNext]_vars

\* ---------------------------------------------------------------------
\* Geometry optimization: line_search, Lbfgs and optimize.  The objective
\* eval is any function: what the model keeps of a value it returns is
\* whether the sufficient-decrease test passes and the norm of the gradient.
\* ---------------------------------------------------------------------

MaxMemory == 2     \* Lbfgs memories 0..MaxMemory
MaxOptIter == 3    \* max_iter of optimize is 0..MaxOptIter

Optimizers == { <<"BFGS">> } \cup { <<"LBFGS", m>> : m \in 0..MaxMemory }

\* norm(&g) of the gradients eval returns, and grad_tol
GradNorms == { RZero, ROne, R(2) }
GradTols == { ROne }

\* Lbfgs::new
LbfgsNew(m) == [m |-> m, s_list |-> <<>>, y_list |-> <<>>]

\* VecDeque::pop_front: nothing happens on an empty deque
pop_front(l) == IF l = <<>> THEN <<>> ELSE Tail(l)

\* the end of Lbfgs::step: when s_list.len() == m both lists lose their
\* front, then s and y are pushed at the back
lbfgs_record(o, s, y) ==
    IF Len(o.s_list) = o.m
    THEN [o EXCEPT !.s_list = Append(pop_front(@), s),
                   !.y_list = Append(pop_front(@), y)]
    ELSE [o EXCEPT !.s_list = Append(@, s), !.y_list = Append(@, y)]

\* a floor of 1e-9 in place of 1e-8
AlphaBelowFloorLate(alpha) == RLt(alpha, <<1, 1000000000>>)

\* line_search: alpha < 1e-8
AlphaBelowFloor(alpha) == RLt(alpha, <<1, 100000000>>)

\* optimize is entered: (f, g) = eval(&x), then Bfgs::new or Lbfgs::new
CallOptimize ==
    /\ call = NoCall
    /\ geo = NoOptimize
    /\ \E optimizer \in Optimizers, max_iter \in 0..MaxOptIter,
          grad_tol \in GradTols, g0 \in GradNorms :
         geo' = [pc |-> "loop", optimizer |-> optimizer, max_iter |-> max_iter,
                 grad_tol |-> grad_tol, i |-> 0, g_norm |-> g0,
                 opt |-> IF optimizer[1] = "LBFGS" THEN LbfgsNew(optimizer[2])
                         ELSE [h_inv |-> "identity"],
                 alpha |-> ROne, evals |-> 0, passed |-> FALSE, steps |-> 0]
    /\ call' = [fn |-> "optimize"]
    /\ UNCHANGED <<diisVars, scfVars, xcVars, ret>>

\* for _ in 0..max_iter { if norm(&g) < grad_tol { break; } opt.step(..) }:
\* the next pass starts with step's call of line_search (alpha = 1.0), or
\* optimize returns (x, f)
LoopTest ==
    /\ geo.pc = "loop"
    /\ IF geo.i < geo.max_iter /\ ~RLt(geo.g_norm, geo.grad_tol)
       THEN geo' = [geo EXCEPT !.pc = "line_search", !.i = @ + 1,
                               !.alpha = ROne, !.evals = 0, !.passed = FALSE]
       ELSE geo' = [geo EXCEPT !.pc = "returned"]
    /\ UNCHANGED <<diisVars, scfVars, xcVars, call, ret>>

\* one pass of the loop of line_search: eval(&x_new), the test
\* f_new <= f + c1 * alpha * dot_gp, else alpha *= 0.5 and the floor test
LineSearchEval ==
    /\ geo.pc = "line_search"
    /\ \E decrease \in BOOLEAN :
         IF decrease
         THEN geo' = [geo EXCEPT !.evals = @ + 1, !.passed = TRUE, !.pc = "update"]
         ELSE geo' = [geo EXCEPT !.evals = @ + 1,
                                 !.alpha = RMul(@, Half),
                                 !.pc = IF AlphaBelowFloor(RMul(geo.alpha, Half))
                                        THEN "update" ELSE "line_search"]
    /\ UNCHANGED <<diisVars, scfVars, xcVars, call, ret>>

\* the rest of step: (f_new, g_new) = eval(&x_new), the optimizer's update
\* (for Lbfgs the pair (s, y) of this step, kept as the step's number), and
\* x, f, g are replaced
StepUpdate ==
    /\ geo.pc = "update"
    /\ \E g_new \in GradNorms :
         geo' = [geo EXCEPT !.g_norm = g_new, !.steps = @ + 1, !.pc = "loop",
                            !.opt = IF geo.optimizer[1] = "LBFGS"
                                    THEN lbfgs_record(@, geo.steps + 1, geo.steps + 1)
                                    ELSE @]
    /\ UNCHANGED <<diisVars, scfVars, xcVars, call, ret>>

OptNext == CallOptimize \/ LoopTest \/ LineSearchEval \/ StepUpdate

SpecOpt == LibInit /\ [][OptNext]_vars

\* ---------------------------------------------------------------------
\* Properties of build_jk
\* ---------------------------------------------------------------------

\* the shell an AO belongs to and its position inside the shell (0-based),
\* read off the list of all AOs in shell order
AoList(shells) ==
    Concat([i \in 1..Len(shells) |-> [c \in 1..n_orbitals(shells[i]) |-> <<i, c - 1>>]])

\* the ERI block of every shell quartet in loop order, as
\* eri_shell_shell_shell_shell returns it
QuartetBlocks(shells) ==
    LET quartets == ShellQuartets(Len(shells))
    IN  Tup([t \in 1..Len(quartets) |->
            eri_shell_shell_shell_shell(shells[quartets[t][1]], shells[quartets[t][2]],
                                        shells[quartets[t][3]], shells[quartets[t][4]])])

\* (mu nu | lam sig): the entry of the ERI block of the four AOs' shells
AoEri(shells, blocks, aos, mu, nu, lam, sig) ==
    LET n == Len(shells)
        t == (((aos[mu][1] - 1) * n + aos[nu][1] - 1) * n + aos[lam][1] - 1) * n
                + aos[sig][1]
    IN  blocks[t][2][
            BlockIdx(aos[mu][2], aos[nu][2], aos[lam][2], aos[sig][2],
                     n_orbitals(shells[aos[nu][1]]), n_orbitals(shells[aos[lam][1]]),
                     n_orbitals(shells[aos[sig][1]]))]

\* J[mu][nu] = sum over lam, sig of P[lam][sig] * (mu nu|lam sig)
JContraction(shells, blocks, aos, P) ==
    LET n == Len(aos)
    IN  Tup([mu \in 1..n |-> Tup([nu \in 1..n |->
            RSum([lam \in 1..n |-> RSum([sig \in 1..n |->
                RMul(P[lam][sig], AoEri(shells, blocks, aos, mu, nu, lam, sig))])])])])

\* K[mu][lam] = sum over nu, sig of P[nu][sig] * (mu nu|lam sig)
KContraction(shells, blocks, aos, P) ==
    LET n == Len(aos)
    IN  Tup([mu \in 1..n |-> Tup([lam \in 1..n |->
            RSum([nu \in 1..n |-> RSum([sig \in 1..n |->
                RMul(P[nu][sig], AoEri(shells, blocks, aos, mu, nu, lam, sig))])])])])

\* C13: build_jk returns J[mu][nu] = sum over lam, sig of
\* P[lam][sig] * (mu nu|lam sig) and K[mu][lam] = sum over nu, sig of
\* P[nu][sig] * (mu nu|lam sig), every AO addressed through its shell's offset
\* and every block entry used once.
C13_JkContraction ==
    call.fn = "build_jk" =>
        /\ IsOk(ret)
        /\ \A blocks \in {QuartetBlocks(call.shells)} :
             \A aos \in {AoList(call.shells)} :
                /\ ret[2][1] = JContraction(call.shells, blocks, aos, call.density)
                /\ ret[2][2] = KContraction(call.shells, blocks, aos, call.density)

\* a d shell followed by an s shell: seven AOs, J and K differ
C13_Witness ==
    /\ call.fn = "build_jk"
    /\ call.shells = <<ShellD, ShellS2>>
    /\ IsOk(ret)
    /\ ret[2][1] # ret[2][2]
    /\ ret[2][1][7][7] # RZero

\* ---------------------------------------------------------------------
\* Properties of the Schwarz bound
\* ---------------------------------------------------------------------

\* C14: for the four shells of a quartet, bound(A,B) * bound(C,D) is at least
\* |(mu nu|lam sig)|, and a quartet whose integral is at or above the cutoff
\* is not zeroed by the screening.
C14_SchwarzBound ==
    call.fn = "eri_shell_shell_shell_shell" =>
        LET bound_ab == schwarz_shell_pair(call.shell_a, call.shell_b)[2]
            bound_cd == schwarz_shell_pair(call.shell_c, call.shell_d)[2]
            integral == eri_ao_ao(Contracted(call.shell_a), Contracted(call.shell_b),
                                  Contracted(call.shell_c), Contracted(call.shell_d))[2]
        IN  /\ ~BelowCutoff(RAbs(integral), ROne) => ret[2][1] = integral
            /\ IF bound_cd = RZero THEN integral = RZero
               ELSE ~RLt(bound_ab, RDiv(RAbs(integral), bound_cd))

\* ---------------------------------------------------------------------
\* Properties of the primitive dispatch
\* ---------------------------------------------------------------------

\* C15: an ERI over a primitive quartet in which any of the four primitives
\* has angular momentum above the supported maximum fails instead of
\* returning a value.
C15_UnsupportedFails ==
    (/\ call.fn = "eri_ao_ao"
     /\ \E ao \in {call.ao_a, call.ao_b, call.ao_c, call.ao_d} :
          \E i \in 1..Len(ao) : AngSum(ao[i].ang) > MaxAngular)
        => ~IsOk(ret)

\* ---------------------------------------------------------------------
\* Properties of the one-electron primitive integrals
\* ---------------------------------------------------------------------

\* C16: overlap_primitive, kinetic_primitive and nuclear_attraction_primitive
\* return no value for a pair in which either primitive has non-zero angular
\* momentum.
C16_NonSFails ==
    (/\ call.fn \in {"overlap_primitive", "kinetic_primitive",
                     "nuclear_attraction_primitive"}
     /\ (AngSum(call.a.ang) > 0 \/ AngSum(call.b.ang) > 0))
        => ~IsOk(ret)

\* ---------------------------------------------------------------------
\* From the molecule to the restricted SCF cycle
\* ---------------------------------------------------------------------

Err(msg) == <<"err", msg>>

\* what read_xyz may return: the atoms of H2, or one of its errors
XyzReads == { Ok(<<Atom(1), Atom(1)>>), Err("Invalid XYZ line") }

Charges == {-1, 0, 1}
Multiplicities == {1, 2, 3}

\* Molecule::from_xyz: Ok(Self { atoms: read_xyz(path)?, charge, multiplicity })
from_xyz(read, charge, multiplicity) ==
    IF IsOk(read)
    THEN Ok([atoms |-> read[2], charge |-> charge, multiplicity |-> multiplicity])
    ELSE read

\* the electrons of a molecule: the nuclear charges less the net charge
ElectronCount(molecule) ==
    LET z[i \in 0..Len(molecule.atoms)] ==
            IF i = 0 THEN 0 ELSE z[i - 1] + molecule.atoms[i].atomic_number
    IN  z[Len(molecule.atoms)] - molecule.charge

\* the molecule is built and, when that succeeds, scf_cycle is called on
\* its electrons
FromXyz ==
    /\ pc = "molecule"
    /\ call = NoCall
    /\ \E read \in XyzReads, charge \in Charges, multiplicity \in Multiplicities :
          LET r == from_xyz(read, charge, multiplicity)
          IN  /\ call' = [fn |-> "Molecule::from_xyz", read |-> read,
                          charge |-> charge, multiplicity |-> multiplicity]
              /\ ret' = r
              /\ IF IsOk(r)
                 THEN /\ inp' = [inp EXCEPT !.nelec = ElectronCount(r[2])]
                      /\ pc' = "entry"
                      /\ UNCHANGED endVars
                 ELSE /\ outcome' = "Failed"
                      /\ result' = None
                      /\ panic' = None
                      /\ pc' = "done"
                      /\ UNCHANGED inp
    /\ UNCHANGED <<diisVars, iterVars, loopVars, memoVars, ghostVars, xcVars, geo>>

MolNext ==
    \/ FromXyz
    \/ Enter
    \/ BuildFock
    \/ SolveRoothaan
    \/ BuildDensity
    \/ ConvergenceTest
    \/ GiveUp

MolInit ==
    /\ dq = DiisNew(0) /\ hist = <<>> /\ ext = None /\ lastOp = "new"
    /\ LibIdle
    /\ \E m \in 0..MaxIter, t \in ConvTols, h \in HCoreVals :
          inp = [driver |-> "scf_cycle", max_iter |-> m, conv_tol |-> t,
                 xc_method |-> None, h_core |-> h, nelec |-> 0,
                 n_alpha |-> 0, n_beta |-> 0]
    /\ pc = "molecule"
    /\ ScfFresh

SpecMol == MolInit /\ [][MolNext]_vars

\* the parity of the electron count is the one the multiplicity 2S + 1 asks
\* for: an even count with an odd multiplicity, an odd count with an even one
ParityMatches(nelec, multiplicity) == (nelec + multiplicity) % 2 = 1

\* C17: when the electron count of the molecule has a parity that does not
\* match its spin multiplicity, no SCF iteration is ever started
C17_ParityRejected ==
    (call.fn = "Molecule::from_xyz" /\ IsOk(ret)
        /\ ~ParityMatches(inp.nelec, ret[2].multiplicity))
    => iters = 0

\* an eigenvalue of the diagonal matrix s that is zero or negative
HasNonPositiveEigenvalue(s) == \E i \in 1..Len(s) : ~RLt(RZero, s[i][i])

\* C18: solve_roothaan on an overlap matrix with a non-positive eigenvalue
\* ends in an error and returns no MO coefficients
C18_SingularOverlapFatal ==
    (call.fn = "solve_roothaan" /\ HasNonPositiveEigenvalue(call.overlap))
    => ~IsOk(ret)

\* C19: in the shell list load_basis returns, the first shell has offset 0,
\* every later shell starts where the shell before it ends (its offset plus
\* its n_orbitals()), and the offsets increase strictly along the list
C19_OffsetsContiguous ==
    (call.fn = "load_basis" /\ IsOk(ret)) =>
        /\ ret[2] # <<>> => ret[2][1].offset = 0
        /\ \A i \in 2..Len(ret[2]) :
              /\ ret[2][i].offset = ret[2][i - 1].offset + n_orbitals(ret[2][i - 1])
              /\ ret[2][i].offset > ret[2][i - 1].offset

\* the basis of a molecule of three hydrogen atoms has been loaded
C19_Witness ==
    /\ call.fn = "load_basis"
    /\ IsOk(ret)
    /\ Len(ret[2]) = MaxAtoms
    /\ ret[2][MaxAtoms].offset = MaxAtoms - 1

\* C20: every handle build_vxc or build_vxc_udft got from the backend is
\* released exactly once by the time the call is over, whether it returns
\* or panics, and no handle is handed to the backend after its release
C20_HandlesReleasedOnce ==
    /\ \A h \in 1..Len(backend) :
          /\ backend[h].ends <= 1
          /\ ~backend[h].used_after_end
    /\ frame.pc = "done" => \A h \in 1..Len(backend) : backend[h].ends = 1

\* a call that got both handles and then panicked in the grid loop is over
C20_Witness ==
    /\ frame.pc = "done"
    /\ ~IsOk(ret)
    /\ Len(backend) = 2
    /\ \A h \in 1..Len(backend) : backend[h].ends = 1

\* C21: build_vxc and build_vxc_udft handle every XcMethod value, a Hybrid
\* whose base is itself a Hybrid included: the call never ends in the
\* unreachable!() arm of the match on xc_base
C21_EveryMethodHandled ==
    call.fn \in {"build_vxc", "build_vxc_udft"} => frame.msg # "unreachable"

\* C22: a shell quartet is skipped exactly when bound(A,B) * bound(C,D) is
\* below 1e-12; a skipped quartet gives a block of na * nb * nc * nd zeros
\* and no error, and every element of a block that is not skipped holds the
\* contracted integral
C22_ScreeningExact ==
    call.fn = "eri_shell_shell_shell_shell" =>
        \A bound_ab \in {schwarz_shell_pair(call.shell_a, call.shell_b)[2]} :
        \A bound_cd \in {schwarz_shell_pair(call.shell_c, call.shell_d)[2]} :
        \A integral \in {eri_ao_ao(Contracted(call.shell_a), Contracted(call.shell_b),
                                   Contracted(call.shell_c), Contracted(call.shell_d))[2]} :
            /\ IsOk(ret)
            /\ Len(ret[2]) = n_orbitals(call.shell_a) * n_orbitals(call.shell_b)
                                * n_orbitals(call.shell_c) * n_orbitals(call.shell_d)
            /\ \A n \in 1..Len(ret[2]) :
                  ret[2][n] = IF BelowCutoff(bound_ab, bound_cd) THEN RZero ELSE integral

\* a quartet whose integral is not zero has been skipped, and a block of more
\* than one element is among the shells
C22_Witness ==
    /\ call.fn = "eri_shell_shell_shell_shell"
    /\ call.shell_a = ShellTiny /\ call.shell_b = ShellTiny
    /\ call.shell_c = ShellTiny /\ call.shell_d = ShellTiny
    /\ ret = Ok(<<RZero>>)
    /\ eri_ao_ao(Contracted(ShellTiny), Contracted(ShellTiny),
                 Contracted(ShellTiny), Contracted(ShellTiny))[2] # RZero

\* the number of pairs a step removes from the front of the history
Evicted == Len(dq.focks) + (IF lastOp' = "push" THEN 1 ELSE 0) - Len(dq'.focks)

\* C23: a (Fock, error) pair stored in the DIIS history is never changed by a
\* later push or extrapolate: it stays as stored, moving one place to the
\* front when the oldest pair is evicted from a full history, until it is
\* evicted itself; extrapolate leaves the whole history unchanged
C23_StoredPairsFrozen ==
    [][ /\ Evicted \in {0, 1}
        /\ Evicted = 1 => lastOp' = "push" /\ Len(dq.focks) = dq.max_vecs
        /\ lastOp' = "extrapolate" => dq' = dq
        /\ \A i \in (Evicted + 1)..Len(dq.focks) :
              /\ dq'.focks[i - Evicted] = dq.focks[i]
              /\ dq'.errors[i - Evicted] = dq.errors[i] ]_vars

\* a pair has survived an eviction, a later push and an extrapolate call
C23_Witness ==
    /\ lastOp = "extrapolate"
    /\ IsSome(ext)
    /\ dq.max_vecs = 2
    /\ Len(hist) = 3
    /\ hist[2][1] # hist[3][1]
    /\ dq.focks = <<hist[2][1], hist[3][1]>>
    /\ dq.errors = <<flatten(hist[2][2]), flatten(hist[3][2])>>

\* lexicographic order of two triples on (lx, ly)
LexBefore(t, u) == t[1] < u[1] \/ (t[1] = u[1] /\ t[2] < u[2])

C25_AssembledSymmetric ==
    call.fn \in {"build_matrix", "build_one_electron_matrix"} =>
        \A i, j \in 1..Len(ret[2]) : ret[2][i][j] = ret[2][j][i]

\* the grid points at or above the density floor among the first n
DensePoints(n) == { i \in 1..n : call.points[i] }

\* C26: in build_vxc and build_vxc_udft a grid point whose density is below
\* 1e-12 adds nothing to the XC matrix, to Exc or to the integral of
\* rho * vxc and makes no backend call, and skipping it is never an error:
\* only dense points have contributed, each handle has been evaluated once
\* per dense point passed, and a panic inside the loop names a dense point
C26_FloorPointsSkipped ==
    call.fn \in {"build_vxc", "build_vxc_udft"} =>
        /\ \A acc \in {frame.exc, frame.int_rho_vxc, frame.vxc} :
              /\ \A i \in 1..Len(acc) : call.points[acc[i]]
              /\ Len(acc) = Cardinality(DensePoints(frame.point))
        /\ Len(backend) = 2 =>
              \A h \in 1..2 : backend[h].evals = Cardinality(DensePoints(frame.point))
        /\ Len(backend) < 2 => \A h \in 1..Len(backend) : backend[h].evals = 0
        /\ frame.msg \in {"meta-GGA requires coeff", "unwrap on None"} =>
              call.points[frame.point + 1]

\* a call over a dense point and a point below the floor has returned: one
\* term in each accumulator, one evaluation per handle
C26_Witness ==
    /\ call.fn \in {"build_vxc", "build_vxc_udft"}
    /\ call.points = <<FALSE, TRUE>>
    /\ frame.pc = "done"
    /\ IsOk(ret)
    /\ frame.exc = <<2>> /\ frame.int_rho_vxc = <<2>> /\ frame.vxc = <<2>>
    /\ Len(backend) = 2
    /\ backend[1].evals = 1 /\ backend[2].evals = 1

\* the AO indices of a shell: offset .. offset + n_orbitals - 1
AoRange(sh) == sh.offset .. (sh.offset + n_orbitals(sh) - 1)

\* C27: for the shells load_basis returns, the offsets build_jk recomputes
\* from n_orbitals are the shells' stored offset fields, and the shells' AO
\* ranges are pairwise disjoint and cover exactly 0 .. nao - 1, nao being
\* the sum of n_orbitals that scf_cycle takes as the matrix size
C27_OffsetsAgree ==
    (call.fn = "load_basis" /\ IsOk(ret)) =>
        \A shells \in {ret[2]} :
        \A nao \in {SumInt([i \in 1..Len(shells) |-> n_orbitals(shells[i])])} :
            /\ shell_offsets(shells) = [i \in 1..Len(shells) |-> shells[i].offset]
            /\ \A i, j \in 1..Len(shells) :
                  i # j => AoRange(shells[i]) \cap AoRange(shells[j]) = {}
            /\ UNION { AoRange(shells[i]) : i \in 1..Len(shells) } = 0..(nao - 1)

\* three shells loaded: build_jk's offsets and the stored ones are 0, 1, 2
C27_Witness ==
    /\ call.fn = "load_basis"
    /\ IsOk(ret)
    /\ Len(ret[2]) = 3
    /\ shell_offsets(ret[2]) = <<0, 1, 2>>
    /\ AoRange(ret[2][3]) = {2}

\* C28: when scf_cycle runs with MetaGGA (or a Hybrid over it) it hands the
\* MO coefficients and the occupied count to build_vxc, so the XC build does
\* not abort for missing orbital data at a dense grid point
C28_MetaGgaOrbitalsSupplied ==
    (/\ inp.driver = "scf_cycle"
     /\ IsSome(inp.xc_method)
     /\ XcBase(Unwrap(inp.xc_method)) = MetaGGA) =>
        panic # Some("meta-GGA requires coeff")

\* the last n step numbers up to k, oldest first
LastSteps(k, n) == [i \in 1..n |-> k - n + i]

\* C29: after any number of Lbfgs::step calls on an optimizer of memory m,
\* m = 0 included, s_list and y_list have the same length, at most m, and
\* hold the pairs of the last steps in order (the oldest pair is the one
\* dropped from a full history)
C29_HistoryWithinMemory ==
    (geo.pc # "idle" /\ geo.optimizer[1] = "LBFGS") =>
        /\ Len(geo.opt.s_list) = Len(geo.opt.y_list)
        /\ Len(geo.opt.s_list) <= geo.opt.m
        /\ geo.opt.s_list = LastSteps(geo.steps, Min(geo.steps, geo.opt.m))
        /\ geo.opt.y_list = geo.opt.s_list

\* what is left of an optimize call: 30 per pass of the loop not yet
\* started, and within a pass the evaluations line_search may still make
OptMeasure(o) ==
    CASE o.pc = "idle" -> 30 * MaxOptIter + 2
      [] o.pc = "loop" -> 30 * (o.max_iter - o.i) + 1
      [] o.pc = "line_search" -> 30 * (o.max_iter - o.i) + 3 + (27 - o.evals)
      [] o.pc = "update" -> 30 * (o.max_iter - o.i) + 2
      [] o.pc = "returned" -> 0

\* C30: line_search makes at most 27 evaluations and returns a step that
\* passed the sufficient-decrease test or is below 1e-8; optimize returns
\* after at most max_iter optimizer steps (every step of the call lowers a
\* measure that cannot go below zero) and starts no step when the norm of
\* the gradient is below grad_tol
C30_OptimizeTerminates ==
    [][ /\ OptMeasure(geo') < OptMeasure(geo)
        /\ OptMeasure(geo') >= 0
        /\ geo'.evals <= 27
        /\ geo'.steps <= geo'.max_iter
        /\ geo'.pc = "update" => geo'.passed \/ RLt(geo'.alpha, <<1, 100000000>>)
        /\ (geo.pc = "loop" /\ geo'.pc = "line_search") =>
              ~RLt(geo.g_norm, geo.grad_tol) ]_vars

\* optimize has returned after max_iter steps, the last with a line search
\* of 27 evaluations that never passed the test
C30_Witness ==
    /\ geo.pc = "returned"
    /\ geo.max_iter = MaxOptIter
    /\ geo.steps = MaxOptIter
    /\ geo.evals = 27
    /\ ~geo.passed
    /\ geo.alpha = <<1, 134217728>>

====
